---- MODULE Spec2Model ----
(***************************************************************************)
(* A model of the NetMD control engine of minidisc-rs.                     *)
(*                                                                         *)
(* Three layers are modelled, each with its own specification:            *)
(*   SpecTransport  netmd/base.rs       NetMD (poll, _send_command,        *)
(*                                      _read_reply, read_bulk_to_array)   *)
(*   SpecInterface  netmd/interface.rs  NetMDInterface (read_reply and the *)
(*                                      descriptor-bracketed operations)   *)
(*   SpecSession    netmd/interface.rs  MDSession, and                     *)
(*                  netmd/commands.rs   NetMDContext::download             *)
(* A layer sees the layer below through the results its calls can return.  *)
(* The device is the environment: what it answers is drawn with \E.        *)
(***************************************************************************)
EXTENDS Integers, Sequences, FiniteSets, TLC

VARIABLES
    \* ---- the build ----
    overflow_checks,  \* TRUE: arithmetic overflow panics (debug profile);
                      \* FALSE: it wraps (release profile)
    \* ---- Transport: one call of NetMD in flight ----
    tcall,            \* the call and its arguments
    tpc,              \* position inside the call
    attempt,          \* _read_reply: the loop variable `attempt`
    length,           \* _read_reply: `length`
    done,             \* read_bulk_to_array: `done`
    final_result,     \* read_bulk_to_array: `final_result`
    progress,         \* read_bulk_to_array: the calls made to progress_callback
    usb,              \* the USB transfers issued on the interface, in order
    tres,             \* what the call returned
    \* ---- Interface: one call of NetMDInterface in flight ----
    icall,            \* the call and its arguments
    ipc,              \* position inside the call
    current_attempt,  \* read_reply: `current_attempt`
    sleeps,           \* read_reply: the cross_sleep durations (ms), in order
    reads,            \* read_reply: number of device.read_reply calls made
    replies,          \* read_reply: what device.read_reply returned, in order
    cmds,             \* the queries handed to send_query, in order, with their results
    lp,               \* loop state of the operation (track index, done, total)
    ires,             \* what the call returned
    \* ---- Session: one NetMDContext::download / MDSession in flight ----
    scall,            \* the call and its arguments
    spc,              \* position inside the call
    hex_session_key,  \* MDSession.hex_session_key
    steps,            \* the Interface operations invoked on the device, in order
    sres,             \* what the call returned
    \* ---- Encryptor: one Encryptor, inline (new) or threaded (new_threaded) ----
    einput,           \* the DataEncryptorInput, the content key and the consumer
    state,            \* Encryptor.state of the inline Encryptor (new)
    thread,           \* locals of the producer thread (new_threaded)
    channel,          \* the unbounded channel between producer and Encryptor
    outs,             \* what next() returned, in order
    closes,           \* how many next() calls had returned when close() was called
    \* ---- send_track over one of the two Encryptors ----
    strack,           \* locals of NetMDInterface::send_track
    bulk,             \* what send_track did on the device, in order
    \* ---- query_utils: one format_query call and the scan_query of its result ----
    qfmt,             \* format_query: the template, the arguments and the result
    qscan,            \* scan_query: the bytes scanned and the result
    qbcd,             \* int_to_bcd and bcd_to_int: the value and the results
    \* ---- disc titles (netmd/interface.rs, netmd/commands.rs) ----
    groups_call,      \* track_group_list: what the device holds and the result
    compile_call,     \* compile_disc_titles: the Disc and the two strings
    rename_call,      \* rename_disc: the old titles, the new names, the writes
    \* ---- NetMDContext (netmd/commands.rs): one call ----
    status_call,      \* disc_present and device_status: what was read, the results
    rewrite_call,     \* rewrite_disc_groups: the Disc, the writes, the titles after
    upload_call       \* upload: what save_track_to_array returned, the result

tvars == <<tcall, tpc, attempt, length, done, final_result, progress, usb, tres>>
ivars == <<icall, ipc, current_attempt, sleeps, reads, replies, cmds, lp, ires>>
svars == <<scall, spc, hex_session_key, steps, sres>>
evars == <<einput, state, thread, channel, outs, closes, strack, bulk>>
qvars == <<qfmt, qscan, qbcd>>
dvars == <<groups_call, compile_call, rename_call>>
cvars == <<status_call, rewrite_call, upload_call>>
vars  == <<overflow_checks, tvars, ivars, svars, evars, qvars, dvars, cvars>>

\* what a step of one layer leaves alone
TransportOnly == UNCHANGED <<overflow_checks, ivars, svars, evars, qvars, dvars, cvars>>
InterfaceOnly == UNCHANGED <<overflow_checks, tvars, svars, evars, qvars, dvars, cvars>>
SessionOnly == UNCHANGED <<overflow_checks, tvars, ivars, evars, qvars, dvars, cvars>>
EncryptorOnly == UNCHANGED <<overflow_checks, tvars, ivars, svars, qvars, dvars, cvars>>
QueryOnly == UNCHANGED <<overflow_checks, tvars, ivars, svars, evars, dvars, cvars>>
TitlesOnly == UNCHANGED <<overflow_checks, tvars, ivars, svars, evars, qvars, cvars>>
ContextOnly == UNCHANGED <<overflow_checks, tvars, ivars, svars, evars, qvars, dvars>>

(***************************************************************************)
(* Bounds of the model                                                     *)
(***************************************************************************)
\* read_bulk: largest `length` and `chunksize` tried
MaxBulkLen == 4
MaxChunk == 3
\* width of usize in the model (the wrap of `done -= to_read` lands at
\* 2^UsizeBits - to_read, far above every length tried, as 2^64 - to_read is)
UsizeBits == 16
UsizeMod == 2 ^ UsizeBits

(***************************************************************************)
(* Results                                                                 *)
(***************************************************************************)
None == [t |-> "None"]
Ok(v) == [t |-> "Ok", v |-> v]
Err(e) == [t |-> "Err", e |-> e]
Panic(why) == [t |-> "Panic", why |-> why]
NoCall == [op |-> "none"]

IsOk(r) == r.t = "Ok"
IsErr(r, e) == r.t = "Err" /\ r.e = e
IsPanic(r) == r.t = "Panic"

Min(a, b) == IF a < b THEN a ELSE b

(***************************************************************************)
(* Transport: netmd/base.rs                                                *)
(***************************************************************************)
READ_REPLY_RETRY_INTERVAL == 10
\* `for attempt in 0..40`
PollLoopEnd == 40
\* `if attempt == 39 { return Err(Timeout) }`
TimeoutAttempt == 39

\* What the device (and the USB stack) can answer to the 4-byte control-in of
\* poll(): a USB error, fewer or more than 4 bytes, or 4 bytes of which
\* raw[2] and raw[3] matter.
PollOutcomes ==
    {[k |-> "usb_err"], [k |-> "short"], [k |-> "long"]}
    \cup [k : {"ok"}, raw2 : {0, 5}, raw3 : {0, 1}]

\* NetMD::poll: the value returned for a device answer.
Poll(o) ==
    CASE o.k = "usb_err" -> Err("UsbError")
      [] o.k = "short"   -> Panic("index out of bounds")
      [] o.k = "long"    -> Err("InvalidResult")
      [] o.k = "ok"      -> Ok([len |-> o.raw2 + 256 * o.raw3, raw2 |-> o.raw2])

\* The transfer poll() puts on the bus, with what came back.
PollEvent(o) == [t |-> "poll", request |-> 1, answer |-> o]

\* `value as u16`
AsU16(v) == v % 65536

\* READ_REPLY_RETRY_INTERVAL * (u32::pow(2, attempt) - 1) leaves u32:
\* 2^attempt overflows from attempt 32 on, and the product as soon as
\* 2^attempt - 1 exceeds (2^32 - 1) div 10 = 429496729.
U32MaxDivInterval == (2147483647 - 2) \div (READ_REPLY_RETRY_INTERVAL \div 2)
PollSleepOverflows(a) ==
    \/ a >= 31
    \/ (2 ^ a) - 1 > U32MaxDivInterval

TransportIdle == tpc = "idle"

\* ---- _send_command (send_command: factory FALSE, send_factory_command: TRUE)
SendCommandCall ==
    /\ TransportOnly
    /\ TransportIdle
    /\ \E f \in BOOLEAN : tcall' = [op |-> "send_command", factory |-> f]
    /\ tpc' = "sc_poll"
    /\ UNCHANGED <<attempt, length, done, final_result, progress, usb, tres>>

\* the poll result with the busy byte not looked at
SendCommandPollResult_IgnoresBusy(r) ==
    CASE r.t = "Ok" -> None
      [] OTHER -> r

SendCommandPollResult(r) ==
    CASE r.t = "Ok" /\ r.v.raw2 = 0 -> None
      [] r.t = "Ok" -> Err("NotReady")
      [] OTHER -> r

SendCommandPoll ==
    /\ TransportOnly
    /\ tpc = "sc_poll"
    /\ \E o \in PollOutcomes :
         LET r == SendCommandPollResult(Poll(o)) IN
         /\ usb' = Append(usb, PollEvent(o))
         /\ IF r = None
              THEN tpc' = "sc_out" /\ tres' = tres
              ELSE tpc' = "done" /\ tres' = r
    /\ UNCHANGED <<tcall, attempt, length, done, final_result, progress>>

SendCommandRequest(factory) == IF factory THEN 255 ELSE 128

SendCommandOut ==
    /\ TransportOnly
    /\ tpc = "sc_out"
    /\ usb' = Append(usb, [t |-> "control_out",
                           request |-> SendCommandRequest(tcall.factory)])
    /\ \E ok \in BOOLEAN : tres' = IF ok THEN Ok(<<>>) ELSE Err("UsbError")
    /\ tpc' = "done"
    /\ UNCHANGED <<tcall, attempt, length, done, final_result, progress>>

\* ---- _read_reply (read_reply: factory FALSE, read_factory_reply: TRUE)
OverrideLengths == {-1, 7, 65536 + 7}

ReadReplyCall ==
    /\ TransportOnly
    /\ TransportIdle
    /\ \E f \in BOOLEAN, ov \in {None} \cup {Ok(v) : v \in OverrideLengths} :
         tcall' = [op |-> "read_reply", factory |-> f, override_length |-> ov]
    /\ tpc' = "rr_loop"
    /\ attempt' = 0
    /\ length' = 0
    /\ UNCHANGED <<done, final_result, progress, usb, tres>>

\* One pass through the body of `for attempt in 0..40`.
ReadReplyLoop ==
    /\ TransportOnly
    /\ tpc = "rr_loop"
    /\ IF attempt = TimeoutAttempt
         THEN /\ tpc' = "done"
              /\ tres' = Err("Timeout")
              /\ UNCHANGED <<attempt, length, usb>>
         ELSE \E o \in PollOutcomes :
                LET r == Poll(o) IN
                /\ usb' = Append(usb, PollEvent(o))
                /\ IF r.t # "Ok"
                     THEN tpc' = "done" /\ tres' = r /\ UNCHANGED <<attempt, length>>
                     ELSE /\ length' = r.v.len
                          /\ IF r.v.len > 0
                               THEN tpc' = "rr_read" /\ UNCHANGED <<attempt, tres>>
                               ELSE IF overflow_checks /\ PollSleepOverflows(attempt)
                                      THEN /\ tpc' = "done"
                                           /\ tres' = Panic("arithmetic overflow")
                                           /\ UNCHANGED attempt
                                      ELSE /\ attempt' = attempt + 1
                                           /\ tpc' = IF attempt + 1 < PollLoopEnd
                                                       THEN "rr_loop" ELSE "rr_read"
                                           /\ UNCHANGED tres
    /\ UNCHANGED <<tcall, done, final_result, progress>>

ReadReplyRequest(factory) == IF factory THEN 255 ELSE 129

ReadReplyLength(len, ov) == IF ov = None THEN len ELSE AsU16(ov.v)

ReadReplyRead ==
    /\ TransportOnly
    /\ tpc = "rr_read"
    /\ length' = ReadReplyLength(length, tcall.override_length)
    /\ usb' = Append(usb, [t |-> "control_in",
                           request |-> ReadReplyRequest(tcall.factory),
                           length |-> length'])
    /\ \E ok \in BOOLEAN :
         tres' = IF ok THEN Ok([len |-> length']) ELSE Err("UsbError")
    /\ tpc' = "done"
    /\ UNCHANGED <<tcall, attempt, done, final_result, progress>>

\* ---- read_bulk_to_array (read_bulk passes its arguments through)
ReadBulkCall ==
    /\ TransportOnly
    /\ TransportIdle
    /\ \E len \in 0..MaxBulkLen, chunk \in 1..MaxChunk :
         tcall' = [op |-> "read_bulk", length |-> len, chunksize |-> chunk]
    /\ tpc' = "rb_loop"
    /\ done' = 0
    /\ final_result' = <<>>
    /\ progress' = <<>>
    /\ UNCHANGED <<attempt, length, usb, tres>>

\* `done -= to_read` on usize
ReadBulkDone(d, to_read) == (d - to_read) % UsizeMod
ReadBulkDoneOverflows(d, to_read) == to_read > d

\* One evaluation of `while done < length` and, when it holds, the body.
\* The device delivers the bytes of its stream in order; byte i of the
\* stream is written i.
ReadBulkLoop ==
    /\ TransportOnly
    /\ tpc = "rb_loop"
    /\ IF done < tcall.length
         THEN LET to_read == Min(tcall.chunksize, tcall.length - done) IN
              IF overflow_checks /\ ReadBulkDoneOverflows(done, to_read)
                THEN /\ tpc' = "done"
                     /\ tres' = Panic("arithmetic overflow")
                     /\ UNCHANGED <<done, final_result, progress, usb>>
                ELSE /\ done' = ReadBulkDone(done, to_read)
                     /\ usb' = Append(usb, [t |-> "bulk_in", endpoint |-> 129,
                                            length |-> to_read])
                     /\ \E ok \in BOOLEAN :
                          IF ok
                            THEN /\ progress' = Append(progress, <<tcall.length, done'>>)
                                 /\ final_result' = final_result \o
                                       [i \in 1..to_read |-> Len(final_result) + i]
                                 /\ UNCHANGED <<tpc, tres>>
                            ELSE /\ tpc' = "done"
                                 /\ tres' = Err("UsbError")
                                 /\ UNCHANGED <<final_result, progress>>
         ELSE /\ tpc' = "done"
              /\ tres' = Ok(final_result)
              /\ UNCHANGED <<done, final_result, progress, usb>>
    /\ UNCHANGED <<tcall, attempt, length>>

(***************************************************************************)
(* Transport claims                                                        *)
(***************************************************************************)
Events(kind) == {i \in 1..Len(usb) : usb[i].t = kind}
PollOkZeroBusy(e) == e.t = "poll" /\ e.answer.k = "ok" /\ e.answer.raw2 = 0

\* C1: in _send_command every control-out is the second transfer of the call
\* and directly follows the call's one poll, which answered with raw[2] = 0;
\* the request is 0x80 (standard) or 0xff (factory); when the poll returns an
\* error or reports raw[2] # 0 the call returns that error, respectively
\* NotReady, without a control-out; no reply control-in is ever issued.
C1_SendCommandAfterReadyPoll ==
    tcall.op = "send_command" =>
      /\ \A i \in Events("control_out") :
           /\ i = 2
           /\ PollOkZeroBusy(usb[1])
           /\ usb[i].request = IF tcall.factory THEN 255 ELSE 128
      /\ Events("control_in") = {}
      /\ Cardinality(Events("poll")) <= 1
      /\ tpc = "done" =>
           /\ usb[1].answer.k = "usb_err" =>
                tres = Err("UsbError") /\ Events("control_out") = {}
           /\ usb[1].answer.k = "long" =>
                tres = Err("InvalidResult") /\ Events("control_out") = {}
           /\ (usb[1].answer.k = "ok" /\ usb[1].answer.raw2 # 0) =>
                tres = Err("NotReady") /\ Events("control_out") = {}
           /\ IsOk(tres) => Events("control_out") = {2}

C1_Witness ==
    /\ tcall.op = "send_command"
    /\ tpc = "done"
    /\ IsOk(tres)
    /\ Events("control_out") = {2}
    /\ usb[1].answer.raw3 = 1

PollReportsLength(e) == e.t = "poll" /\ e.answer.k = "ok" /\ e.answer.raw2 + 256 * e.answer.raw3 > 0
PollReportsZero(e) == e.t = "poll" /\ e.answer.k = "ok" /\ e.answer.raw2 + 256 * e.answer.raw3 = 0

\* C3: a finished _read_reply whose polls all answered well-formed has issued,
\* when poll k was the first with a non-zero length, exactly k polls and then
\* one reply control-in; and when every poll reported length 0, exactly 40
\* polls, no reply control-in, and has returned Timeout.
C3_FortyPolls ==
    (/\ tcall.op = "read_reply"
     /\ tpc = "done"
     /\ \A i \in Events("poll") : usb[i].answer.k = "ok") =>
      IF \E i \in Events("poll") : PollReportsLength(usb[i])
        THEN /\ Events("control_in") = {Len(usb)}
             /\ Events("poll") = 1..(Len(usb) - 1)
             /\ \A i \in 1..(Len(usb) - 2) : PollReportsZero(usb[i])
             /\ Len(usb) - 1 <= 40
        ELSE /\ Cardinality(Events("poll")) = 40
             /\ Events("control_in") = {}
             /\ tres = Err("Timeout")

\* C6: a finished read_bulk_to_array(length, chunk) none of whose bulk reads
\* failed has returned Ok after exactly ceil(length/chunk) bulk-in reads, the
\* i-th requesting min(chunk, length - (i-1)*chunk) bytes, returns the
\* device's bytes in order, and has called the progress callback once per
\* chunk with (length, bytes read so far), never more than length.
CeilDiv(a, b) == (a + b - 1) \div b

C6_BulkReadsAllChunks ==
    (/\ tcall.op = "read_bulk"
     /\ tpc = "done"
     /\ ~IsErr(tres, "UsbError")) =>
      /\ IsOk(tres)
      /\ Len(usb) = CeilDiv(tcall.length, tcall.chunksize)
      /\ \A i \in 1..Len(usb) :
           /\ usb[i].t = "bulk_in"
           /\ usb[i].length = Min(tcall.chunksize, tcall.length - (i - 1) * tcall.chunksize)
      /\ tres.v = [i \in 1..tcall.length |-> i]
      /\ Len(progress) = Len(usb)
      /\ \A i \in 1..Len(progress) :
           /\ progress[i] = <<tcall.length, Min(i * tcall.chunksize, tcall.length)>>
           /\ progress[i][2] <= tcall.length

(***************************************************************************)
(* Interface: netmd/interface.rs, NetMDInterface::read_reply               *)
(* (NetMDFactoryInterface::read_reply, factory_interface.rs, is the same   *)
(* code over read_factory_reply)                                           *)
(***************************************************************************)
MAX_INTERIM_READ_ATTEMPTS == 4
INTERIM_RESPONSE_RETRY_INTERVAL == 100

\* impl TryFrom<u8> for NetmdStatus
NetmdStatus(b) ==
    CASE b = 0  -> "Control"
      [] b = 1  -> "Status"
      [] b = 2  -> "SpecificInquiry"
      [] b = 3  -> "Notify"
      [] b = 4  -> "GeneralInquiry"
      [] b = 8  -> "NotImplemented"
      [] b = 9  -> "Accepted"
      [] b = 10 -> "Rejected"
      [] b = 11 -> "InTransition"
      [] b = 12 -> "Implemented"
      [] b = 13 -> "Changed"
      [] b = 15 -> "Interim"
      [] OTHER  -> "StatusError"

\* first bytes a device may send: every known status, and some unknown ones
StatusBytes == {0, 1, 2, 3, 4, 8, 9, 10, 11, 12, 13, 15} \cup {5, 14, 16, 255}
PayloadBytes == {0, 7}

\* what self.device.read_reply(None) can return: an error of the transport, a
\* panic of the transport, or the bytes of the reply (possibly none)
DeviceReplies ==
    {Err("Timeout"), Err("UsbError"), Panic("transport")}
    \cup {Ok(<<>>)}
    \cup {Ok(<<b, x>>) : b \in StatusBytes, x \in PayloadBytes}

\* the arm of `match status` taken
ReadReplyArm_RetriesNotImplemented(status, accept_interim) ==
    CASE status = "Rejected" -> "Rejected"
      [] status \in {"Interim", "NotImplemented"} /\ ~accept_interim -> "Retry"
      [] status \in {"Accepted", "Implemented", "Interim"} -> "Return"
      [] OTHER -> "Unknown"

ReadReplyArm_ImplementedUnknown(status, accept_interim) ==
    CASE status = "NotImplemented" -> "NotImplemented"
      [] status = "Rejected" -> "Rejected"
      [] status = "Interim" /\ ~accept_interim -> "Retry"
      [] status \in {"Accepted", "Interim"} -> "Return"
      [] OTHER -> "Unknown"

ReadReplyArm(status, accept_interim) ==
    CASE status = "NotImplemented" -> "NotImplemented"
      [] status = "Rejected" -> "Rejected"
      [] status = "Interim" /\ ~accept_interim -> "Retry"
      [] status \in {"Accepted", "Implemented", "Interim"} -> "Return"
      [] OTHER -> "Unknown"

\* INTERIM_RESPONSE_RETRY_INTERVAL * (u32::pow(2, current_attempt) - 1)
InterimSleep(a) == INTERIM_RESPONSE_RETRY_INTERVAL * ((2 ^ a) - 1)

InterfaceIdle == ipc = "idle"

InterfaceReadReplyCall ==
    /\ InterfaceOnly
    /\ InterfaceIdle
    /\ \E acc \in BOOLEAN, f \in BOOLEAN :
         icall' = [op |-> "read_reply", accept_interim |-> acc, factory |-> f]
    /\ ipc' = "rr_loop"
    /\ current_attempt' = 0
    /\ UNCHANGED <<sleeps, reads, replies, cmds, lp, ires>>

\* One evaluation of `while current_attempt < MAX_INTERIM_READ_ATTEMPTS` and,
\* when it holds, the body; when it does not, the unreachable!() after it.
InterfaceReadReplyLoop ==
    /\ InterfaceOnly
    /\ ipc = "rr_loop"
    /\ IF current_attempt < MAX_INTERIM_READ_ATTEMPTS
         THEN \E data \in DeviceReplies :
                /\ reads' = reads + 1
                /\ replies' = Append(replies, data)
                /\ IF ~IsOk(data)
                     THEN ipc' = "done" /\ ires' = data
                                        /\ UNCHANGED <<current_attempt, sleeps>>
                     ELSE IF data.v = <<>>
                       THEN ipc' = "done" /\ ires' = Panic("index out of bounds")
                                          /\ UNCHANGED <<current_attempt, sleeps>>
                       ELSE
                  LET status == NetmdStatus(data.v[1])
                      arm == ReadReplyArm(status, icall.accept_interim) IN
                  IF status = "StatusError"
                    THEN ipc' = "done" /\ ires' = Err("InvalidStatus")
                                       /\ UNCHANGED <<current_attempt, sleeps>>
                    ELSE
                  CASE arm \in {"NotImplemented", "Rejected", "Unknown"} ->
                         ipc' = "done" /\ ires' = Err(arm)
                                       /\ UNCHANGED <<current_attempt, sleeps>>
                    [] arm = "Retry" ->
                         /\ sleeps' = Append(sleeps, InterimSleep(current_attempt))
                         /\ current_attempt' = current_attempt + 1
                         /\ UNCHANGED <<ipc, ires>>
                    [] arm = "Return" ->
                         /\ ipc' = "done"
                         /\ ires' = IF current_attempt >= MAX_INTERIM_READ_ATTEMPTS
                                      THEN Err("MaxRetries") ELSE Ok(data.v)
                         /\ UNCHANGED <<current_attempt, sleeps>>
         ELSE /\ ipc' = "done"
              /\ ires' = Panic("unreachable")
              /\ UNCHANGED <<current_attempt, sleeps, reads, replies>>
    /\ UNCHANGED <<icall, cmds, lp>>

(***************************************************************************)
(* Interface read_reply claims                                             *)
(***************************************************************************)
ReplyStatus(r) == IF IsOk(r) /\ r.v # <<>> THEN NetmdStatus(r.v[1]) ELSE "none"

\* C2: a finished read_reply(accept_interim = false) all of whose reply reads
\* were answered with status Interim has made 4 reads and returned the error
\* MaxRetries (no panic).
C2_MaxRetriesAfterFourInterims ==
    (/\ icall.op = "read_reply"
     /\ ~icall.accept_interim
     /\ ipc = "done"
     /\ \A i \in 1..Len(replies) : ReplyStatus(replies[i]) = "Interim") =>
      /\ reads = 4
      /\ ires = Err("MaxRetries")

\* C4: in read_reply a reply with status NotImplemented or Rejected is the
\* last one read: the call is finished with the error NotImplemented,
\* respectively Rejected, and no sleep follows that reply (the sleeps are
\* those of the Interim replies before it), whatever accept_interim is.
C4_NotImplementedRejectedTerminal ==
    icall.op = "read_reply" =>
      \A i \in 1..Len(replies) :
        ReplyStatus(replies[i]) \in {"NotImplemented", "Rejected"} =>
          /\ i = Len(replies)
          /\ reads = i
          /\ ipc = "done"
          /\ ires = Err(ReplyStatus(replies[i]))
          /\ Len(sleeps) = i - 1

C4_Witness ==
    /\ icall.op = "read_reply"
    /\ ~icall.accept_interim
    /\ Len(replies) = 3
    /\ ReplyStatus(replies[3]) = "NotImplemented"
    /\ ires = Err("NotImplemented")
    /\ sleeps = <<0, 100>>

RequestSideOrOther ==
    {"Control", "Status", "SpecificInquiry", "Notify", "GeneralInquiry",
     "InTransition", "Changed"}

\* C5: a finished read_reply whose last reply has status Accepted or
\* Implemented, or Interim with accept_interim, returns exactly the bytes of
\* that reply, also after 1 to 3 retried Interim replies; a last reply with
\* another known status returns the error Unknown; one whose first byte is
\* no known status returns InvalidStatus.
C5_StatusDispatch ==
    (/\ icall.op = "read_reply"
     /\ ipc = "done"
     /\ replies # <<>>
     /\ IsOk(replies[Len(replies)])
     /\ replies[Len(replies)].v # <<>>) =>
      LET last == replies[Len(replies)]
          st == ReplyStatus(last) IN
      /\ Len(replies) <= 4
      /\ \A i \in 1..(Len(replies) - 1) : ReplyStatus(replies[i]) = "Interim"
      /\ st \in {"Accepted", "Implemented"} => ires = Ok(last.v)
      /\ (st = "Interim" /\ icall.accept_interim) =>
           ires = Ok(last.v) /\ Len(replies) = 1
      /\ st \in RequestSideOrOther => ires = Err("Unknown")
      /\ st = "StatusError" => ires = Err("InvalidStatus")

C5_Witness ==
    /\ icall.op = "read_reply"
    /\ ipc = "done"
    /\ Len(replies) = 4
    /\ ires = Ok(<<12, 7>>)
    /\ sleeps = <<0, 100, 300>>

(***************************************************************************)
(* Interface: netmd/interface.rs, the descriptor-bracketed operations      *)
(***************************************************************************)
\* bounds: most tracks passed to track_titles / track_lengths, and most
\* chunks of the raw disc title followed
MaxTracks == 2
MaxTitleChunks == 3

InterfaceErrors ==
    {"Communication", "InvalidStatus", "NotImplemented", "Rejected", "Unknown",
     "MaxRetries"}
\* what send_query can return: a reply ("ok"), an InterfaceError of
\* send_command or read_reply, or a panic raised below it
QueryOutcomes == {"ok"} \cup InterfaceErrors \cup {"panic"}
Failure(o) == IF o = "panic" THEN Panic("send_query") ELSE Err(o)

\* whether scan_query finds the reply to match its template
ScanKinds == {"match", "mismatch"}
\* `scan_query(..)?` gives QueryError, `scan_query(..).unwrap()` panics
ScanFailure(mode) == IF mode = "unwrap" THEN Panic("unwrap") ELSE Err("QueryError")

\* titles a caller passes and titles the device holds
Titles == {"", "A"}
DeviceTitles == {"", "A", "B"}

\* the query reaches send_query; o is what send_query returned
Sent(c, d, o) == cmds' = Append(cmds, [c |-> c, d |-> d, r |-> o])
Return(r) == ipc' = "done" /\ ires' = r
Goto(pc) == ipc' = pc /\ ires' = ires

\* match self.send_query(&query, false, false).await
\*   { Ok(_) => Ok(()), Err(err) => Err(err) }, followed by `?` at the caller:
\* o is what send_query returned, Then the caller's continuation, Else its
\* return of the error
ChangeDescriptorState(d, a, o, Then, Else) ==
    /\ Sent(a, d, o)
    /\ IF o = "ok" THEN Then ELSE Else

\* status, disc_flags, track_count, track_flags, disc_capacity and
\* recording_parameters: OpenRead d; one data query and its scan; Close d
BracketedRead(op, d, scan) ==
    /\ InterfaceOnly
    /\ icall.op = op
    /\ \/ /\ ipc = "open"
          /\ \E o \in QueryOutcomes :
               ChangeDescriptorState(d, "OpenRead", o,
                   Goto("data"),
                   Return(Failure(o)))
       \/ /\ ipc = "data"
          /\ \E o \in QueryOutcomes :
               /\ Sent("data", op, o)
               /\ IF o # "ok"
                    THEN Return(Failure(o))
                    ELSE \E k \in ScanKinds :
                           IF k = "match" THEN Goto("close")
                                          ELSE Return(ScanFailure(scan))
       \/ /\ ipc = "close"
          /\ \E o \in QueryOutcomes :
               ChangeDescriptorState(d, "Close", o,
                   Return(Ok(op)),
                   Return(Failure(o)))
    /\ UNCHANGED <<icall, current_attempt, sleeps, reads, replies, lp>>

status == BracketedRead("status", "OperatingStatusBlock", "try")
disc_flags == BracketedRead("disc_flags", "RootTD", "unwrap")
track_count == BracketedRead("track_count", "AudioContentsTD", "unwrap")
track_flags == BracketedRead("track_flags", "AudioContentsTD", "try")
disc_capacity == BracketedRead("disc_capacity", "RootTD", "try")
recording_parameters ==
    BracketedRead("recording_parameters", "OperatingStatusBlock", "try")

\* what position() returns when send_query returned Err
PositionOnError(o) == Ok("zeroed")

position ==
    /\ InterfaceOnly
    /\ icall.op = "position"
    /\ \/ /\ ipc = "open"
          /\ \E o \in QueryOutcomes :
               ChangeDescriptorState("OperatingStatusBlock", "OpenRead", o,
                   Goto("data"),
                   Return(Failure(o)))
       \/ /\ ipc = "data"
          /\ \E o \in QueryOutcomes :
               /\ Sent("data", "position", o)
               /\ CASE o = "panic" -> Return(Failure(o))
                    [] o \in InterfaceErrors -> Return(PositionOnError(o))
                    [] o = "ok" ->
                         \E k \in ScanKinds :
                           IF k = "match" THEN Goto("close")
                                          ELSE Return(ScanFailure("try"))
       \/ /\ ipc = "close"
          /\ \E o \in QueryOutcomes :
               ChangeDescriptorState("OperatingStatusBlock", "Close", o,
                   Return(Ok("position")),
                   Return(Failure(o)))
    /\ UNCHANGED <<icall, current_attempt, sleeps, reads, replies, lp>>

\* raw_disc_title(wchar): AudioContentsTD and DiscTitleTD opened, the title
\* read in chunks while done < total, both closed in reverse order
FirstChunkSizes == {6, 7, 8}
ChunkSizes == {0, 1, 2}
TitleTotals == {0, 1, 2, 3}

\* set_disc_title, after `self.raw_disc_title(wchar).await?` returned Ok: the
\* title the disc already has is refused with TitleError, another one goes on
\* to the write
SetDiscTitleAfterRead ==
    \E same \in BOOLEAN :
      IF same THEN Return(Err("TitleError")) ELSE Goto("w_pre")

\* return of raw_disc_title: to its caller, or into set_disc_title
RawDiscTitleReturn(r) ==
    IF icall.op = "raw_disc_title" \/ ~IsOk(r)
      THEN Return(r)
      ELSE SetDiscTitleAfterRead

\* raw_disc_title(wchar); set_disc_title runs it for the current title
raw_disc_title ==
    /\ InterfaceOnly
    /\ icall.op \in {"raw_disc_title", "set_disc_title"}
    /\ \/ /\ ipc = "open"
          /\ \E o \in QueryOutcomes :
               ChangeDescriptorState("AudioContentsTD", "OpenRead", o,
                   Goto("open2"),
                   RawDiscTitleReturn(Failure(o)))
          /\ UNCHANGED lp
       \/ /\ ipc = "open2"
          /\ \E o \in QueryOutcomes :
               ChangeDescriptorState("DiscTitleTD", "OpenRead", o,
                   Goto("loop"),
                   RawDiscTitleReturn(Failure(o)))
          /\ lp' = [done |-> 0, remaining |-> 0, total |-> 1, n |-> 0]
       \/ /\ ipc = "loop"
          /\ lp.done < lp.total
          /\ lp.n < MaxTitleChunks
          /\ \E o \in QueryOutcomes :
               /\ Sent("data", "raw_disc_title", o)
               /\ IF o # "ok"
                    THEN RawDiscTitleReturn(Failure(o)) /\ UNCHANGED lp
                    ELSE \E k \in ScanKinds :
                      IF k = "mismatch"
                        THEN RawDiscTitleReturn(ScanFailure("try")) /\ UNCHANGED lp
                        ELSE
                          /\ Goto("loop")
                          /\ IF lp.remaining = 0
                               THEN \E c \in FirstChunkSizes, t \in TitleTotals :
                                      lp' = [done |-> lp.done + (c - 6),
                                             remaining |-> t - (lp.done + (c - 6)),
                                             total |-> t, n |-> lp.n + 1]
                               ELSE \E c \in ChunkSizes :
                                      lp' = [done |-> lp.done + c,
                                             remaining |-> lp.total - (lp.done + c),
                                             total |-> lp.total, n |-> lp.n + 1]
       \/ /\ ipc = "loop"
          /\ ~(lp.done < lp.total)
          /\ \E o \in QueryOutcomes :
               ChangeDescriptorState("DiscTitleTD", "Close", o,
                   Goto("close2"),
                   RawDiscTitleReturn(Failure(o)))
          /\ UNCHANGED lp
       \/ /\ ipc = "close2"
          /\ \E o \in QueryOutcomes :
               ChangeDescriptorState("AudioContentsTD", "Close", o,
                   RawDiscTitleReturn(Ok("raw_disc_title")),
                   RawDiscTitleReturn(Failure(o)))
          /\ UNCHANGED lp
    /\ UNCHANGED <<icall, current_attempt, sleeps, reads, replies>>

\* the descriptor of track titles: AudioUTOC4TD for wchar, else AudioUTOC1TD
TitleDescriptor(wchar) == IF wchar THEN "AudioUTOC4TD" ELSE "AudioUTOC1TD"

\* set_track_title, after `self.track_title(track, wchar).await` returned r
\* (track_title turns Err(Rejected) into the empty title):
\* the same title returns Ok at once, another one goes on to the write
SetTrackTitleAfterRead(r) ==
    LET current == CASE IsOk(r) -> Ok(r.v[1])
                     [] IsErr(r, "Rejected") -> Ok("")
                     [] OTHER -> r IN
    IF ~IsOk(current) THEN Return(current)
    ELSE IF icall.title = current.v THEN Return(Ok("unchanged"))
    ELSE Goto("w_open")

\* return of track_titles: to its caller, or into set_track_title
TrackTitlesReturn(r) ==
    IF icall.op = "track_titles" \/ IsPanic(r)
      THEN Return(r)
      ELSE SetTrackTitleAfterRead(r)

\* track_titles(tracks, wchar); set_track_title runs it for its one track
track_titles ==
    /\ InterfaceOnly
    /\ icall.op \in {"track_titles", "set_track_title"}
    /\ \/ /\ ipc = "open"
          /\ \E o \in QueryOutcomes :
               ChangeDescriptorState(TitleDescriptor(icall.wchar), "OpenRead", o,
                   Goto(IF icall.tracks = 0 THEN "close" ELSE "iter"),
                   TrackTitlesReturn(Failure(o)))
          /\ lp' = [i |-> 0, titles |-> <<>>]
       \/ /\ ipc = "iter"
          /\ \E o \in QueryOutcomes :
               /\ Sent("data", "track_titles", o)
               /\ IF o # "ok"
                    THEN TrackTitlesReturn(Failure(o)) /\ UNCHANGED lp
                    ELSE \E k \in ScanKinds :
                      IF k = "mismatch"
                        THEN Return(ScanFailure("unwrap")) /\ UNCHANGED lp
                        ELSE \E title \in DeviceTitles :
                               /\ lp' = [i |-> lp.i + 1,
                                         titles |-> Append(lp.titles, title)]
                               /\ Goto(IF lp.i + 1 < icall.tracks
                                         THEN "iter" ELSE "close")
       \/ /\ ipc = "close"
          /\ \E o \in QueryOutcomes :
               ChangeDescriptorState(TitleDescriptor(icall.wchar), "Close", o,
                   TrackTitlesReturn(Ok(lp.titles)),
                   TrackTitlesReturn(Failure(o)))
          /\ UNCHANGED lp
    /\ UNCHANGED <<icall, current_attempt, sleeps, reads, replies>>

\* set_track_title(track, title, wchar), after the current title was read
set_track_title ==
    /\ InterfaceOnly
    /\ icall.op = "set_track_title"
    /\ \/ /\ ipc = "w_open"
          /\ \E o \in QueryOutcomes :
               ChangeDescriptorState(TitleDescriptor(icall.wchar), "OpenWrite", o,
                   Goto("w_data"),
                   Return(Failure(o)))
       \/ /\ ipc = "w_data"
          /\ \E o \in QueryOutcomes :
               /\ Sent("data", "set_track_title", o)
               /\ IF o # "ok" THEN Return(Failure(o)) ELSE Goto("w_close")
       \/ /\ ipc = "w_close"
          /\ \E o \in QueryOutcomes :
               ChangeDescriptorState(TitleDescriptor(icall.wchar), "Close", o,
                   Return(Ok("set_track_title")),
                   Return(Failure(o)))
    /\ UNCHANGED <<icall, current_attempt, sleeps, reads, replies, lp>>

\* track_lengths(tracks): per track one data query and two scans
track_lengths ==
    /\ InterfaceOnly
    /\ icall.op = "track_lengths"
    /\ \/ /\ ipc = "open"
          /\ \E o \in QueryOutcomes :
               ChangeDescriptorState("AudioContentsTD", "OpenRead", o,
                   Goto(IF icall.tracks = 0 THEN "close" ELSE "iter"),
                   Return(Failure(o)))
          /\ lp' = [i |-> 0]
       \/ /\ ipc = "iter"
          /\ \E o \in QueryOutcomes :
               /\ Sent("data", "track_lengths", o)
               /\ IF o # "ok"
                    THEN Return(Failure(o)) /\ UNCHANGED lp
                    ELSE \E k1 \in ScanKinds, k2 \in ScanKinds :
                      IF k1 = "mismatch" \/ k2 = "mismatch"
                        THEN Return(ScanFailure("try")) /\ UNCHANGED lp
                        ELSE /\ lp' = [i |-> lp.i + 1]
                             /\ Goto(IF lp.i + 1 < icall.tracks
                                       THEN "iter" ELSE "close")
       \/ /\ ipc = "close"
          /\ \E o \in QueryOutcomes :
               ChangeDescriptorState("AudioContentsTD", "Close", o,
                   Return(Ok("track_lengths")),
                   Return(Failure(o)))
          /\ UNCHANGED lp
    /\ UNCHANGED <<icall, current_attempt, sleeps, reads, replies>>

\* set_disc_title(title, wchar), after the current title was read; the
\* result of the write query is dropped (`let _ = self.send_query(..).await`)
SetDiscTitleWrite ==
    /\ InterfaceOnly
    /\ icall.op = "set_disc_title"
    /\ \/ /\ ipc = "w_pre"
          /\ \E o \in QueryOutcomes :
               IF icall.sharp
                 THEN ChangeDescriptorState("AudioUTOC1TD", "OpenWrite", o,
                          Goto("w_data"), Return(Failure(o)))
                 ELSE ChangeDescriptorState("DiscTitleTD", "Close", o,
                          Goto("w_open"), Return(Failure(o)))
       \/ /\ ipc = "w_open"
          /\ \E o \in QueryOutcomes :
               ChangeDescriptorState("DiscTitleTD", "OpenWrite", o,
                   Goto("w_data"), Return(Failure(o)))
       \/ /\ ipc = "w_data"
          /\ \E o \in QueryOutcomes :
               /\ Sent("data", "set_disc_title", o)
               /\ IF o = "panic" THEN Return(Failure(o)) ELSE Goto("w_close")
       \/ /\ ipc = "w_close"
          /\ \E o \in QueryOutcomes :
               IF icall.sharp
                 THEN ChangeDescriptorState("AudioUTOC1TD", "Close", o,
                          Return(Ok("set_disc_title")), Return(Failure(o)))
                 ELSE ChangeDescriptorState("DiscTitleTD", "Close", o,
                          Goto("w_reopen"), Return(Failure(o)))
       \/ /\ ipc = "w_reopen"
          /\ \E o \in QueryOutcomes :
               ChangeDescriptorState("DiscTitleTD", "OpenRead", o,
                   Goto("w_close2"), Return(Failure(o)))
       \/ /\ ipc = "w_close2"
          /\ \E o \in QueryOutcomes :
               ChangeDescriptorState("DiscTitleTD", "Close", o,
                   Return(Ok("set_disc_title")), Return(Failure(o)))
    /\ UNCHANGED <<icall, current_attempt, sleeps, reads, replies, lp>>

\* erase_track(track) and move_track(source, dest): one query whose result
\* is dropped (`let _result = self.send_query(..).await; Ok(())`)
UncheckedQuery(op) ==
    /\ InterfaceOnly
    /\ icall.op = op
    /\ ipc = "open"
    /\ \E o \in QueryOutcomes :
         /\ Sent("data", op, o)
         /\ IF o = "panic" THEN Return(Failure(o)) ELSE Return(Ok(op))
    /\ UNCHANGED <<icall, current_attempt, sleeps, reads, replies, lp>>

erase_track == UncheckedQuery("erase_track")
move_track == UncheckedQuery("move_track")

\* the operations that change the disc with one write query
MutatingOps == {"set_disc_title", "erase_track", "move_track"}

\* the secure-session operations that check their arguments first
SecureOps == {"send_key_data", "session_key_exchange", "setup_download", "commit_track"}
\* argument values looked at: depths, and lengths of the byte strings
Depths == {0, 1, 9, 63, 64}
NonceLengths == {7, 8, 9}
ContentIdLengths == {19, 20}
KeyLengths == {7, 8}

\* no argument is checked
ArgumentError_Unchecked(call) == None

\* the checks at the head of send_key_data, session_key_exchange,
\* setup_download and commit_track: the error returned, None when the
\* arguments pass
ArgumentError(call) ==
    CASE call.op = "send_key_data" /\ ~(call.depth \in 1..63) -> Err("InvalidDepth")
      [] call.op = "session_key_exchange" /\ call.hostnonce # 8 -> Err("InvalidLength")
      [] call.op = "setup_download"
           /\ (call.contentid # 20 \/ call.keyenckey # 8 \/ call.hex_session_key # 8)
           -> Err("InvalidLength")
      [] call.op = "commit_track" /\ call.hex_session_key # 8 -> Err("InvalidLength")
      [] OTHER -> None

\* a caller starts one of them
SecureCall ==
    /\ InterfaceOnly
    /\ InterfaceIdle
    /\ \E op \in SecureOps, depth \in Depths, hostnonce \in NonceLengths,
          contentid \in ContentIdLengths, keyenckey \in KeyLengths, key \in KeyLengths :
         icall' = [op |-> op,
                   depth |-> IF op = "send_key_data" THEN depth ELSE 9,
                   hostnonce |-> IF op = "session_key_exchange" THEN hostnonce ELSE 8,
                   contentid |-> IF op = "setup_download" THEN contentid ELSE 20,
                   keyenckey |-> IF op = "setup_download" THEN keyenckey ELSE 8,
                   hex_session_key |-> IF op \in {"setup_download", "commit_track"}
                                         THEN key ELSE 8]
    /\ ipc' = "open"
    /\ UNCHANGED <<current_attempt, sleeps, reads, replies, cmds, lp, ires>>

\* send_key_data, session_key_exchange, setup_download, commit_track: the
\* checks, then the query and the scan of its reply
SecureOp ==
    /\ InterfaceOnly
    /\ icall.op \in SecureOps
    /\ ipc = "open"
    /\ IF ArgumentError(icall) # None
         THEN Return(ArgumentError(icall)) /\ UNCHANGED cmds
         ELSE \E o \in QueryOutcomes :
                /\ Sent("data", icall.op, o)
                /\ IF o # "ok"
                     THEN Return(Failure(o))
                     ELSE \E k \in ScanKinds :
                            IF k = "match" THEN Return(Ok(icall.op))
                                           ELSE Return(ScanFailure("try"))
    /\ UNCHANGED <<icall, current_attempt, sleeps, reads, replies, lp>>

\* enum Direction
DirectionPrevious == 2
DirectionNext == 32769
DirectionRestart == 1

\* NetMDContext::next_track, previous_track, restart_track: the Direction
\* each hands to track_change (earlier revisions sent Next for all three)
DirectionOf_AlwaysNext(op) == DirectionNext
DirectionOf(op) ==
    CASE op = "next_track" -> DirectionNext
      [] op = "previous_track" -> DirectionPrevious
      [] op = "restart_track" -> DirectionRestart
TrackChangeOps == {"next_track", "previous_track", "restart_track"}

BracketedOps ==
    {"status", "position", "disc_flags", "track_count", "raw_disc_title",
     "track_titles", "track_lengths", "track_flags", "disc_capacity",
     "recording_parameters", "set_track_title"}

\* a caller starts one of the operations
InterfaceCall ==
    /\ InterfaceOnly
    /\ InterfaceIdle
    /\ \E op \in BracketedOps \cup MutatingOps \cup TrackChangeOps, w \in BOOLEAN, n \in 0..MaxTracks,
          t \in Titles, sharp \in BOOLEAN :
         icall' = [op |-> op,
                   wchar |-> IF op \in {"raw_disc_title", "track_titles", "set_track_title",
                                        "set_disc_title"}
                               THEN w ELSE FALSE,
                   sharp |-> IF op = "set_disc_title" THEN sharp ELSE FALSE,
                   tracks |-> CASE op \in {"track_titles", "track_lengths"} -> n
                                [] op = "set_track_title" -> 1
                                [] OTHER -> 0,
                   title |-> IF op = "set_track_title" THEN t ELSE ""]
    /\ ipc' = "open"
    /\ UNCHANGED <<current_attempt, sleeps, reads, replies, cmds, lp, ires>>

(***************************************************************************)
(* Descriptor claims                                                       *)
(***************************************************************************)
RECURSIVE OpenAfter(_, _)
\* the descriptors open on the device after the first n queries of log,
\* innermost last (a query that failed changes nothing)
OpenAfter(log, n) ==
    IF n = 0 THEN <<>>
    ELSE LET st == OpenAfter(log, n - 1)
             e == log[n] IN
         CASE e.r = "ok" /\ e.c \in {"OpenRead", "OpenWrite"} ->
                IF \E i \in 1..Len(st) : st[i] = e.d THEN st ELSE Append(st, e.d)
           [] e.r = "ok" /\ e.c = "Close" ->
                SelectSeq(st, LAMBDA x : x # e.d)
           [] OTHER -> st

WellBracketed(log) ==
    /\ OpenAfter(log, Len(log)) = <<>>
    /\ \A n \in 1..Len(log) :
         LET st == OpenAfter(log, n - 1)
             e == log[n] IN
         /\ e.c = "data" => st # <<>>
         /\ (e.c = "Close" /\ e.r = "ok") => (st # <<>> /\ st[Len(st)] = e.d)

\* C7: whenever a descriptor-bracketed operation has returned Ok, every
\* descriptor it opened has been closed again, its data queries were issued
\* while a descriptor was open, and each Close closed the innermost open
\* descriptor.
C7_DescriptorsBracketed ==
    (icall.op \in BracketedOps /\ ipc = "done" /\ IsOk(ires)) =>
      WellBracketed(cmds)

(***************************************************************************)
(* Session: MDSession (netmd/interface.rs) and NetMDContext::download      *)
(* (netmd/commands.rs)                                                     *)
(***************************************************************************)
\* bounds: most device_status rounds of prepare_download followed, and most
\* calls made on one MDSession
MaxIdleWaits == 2
MaxSessionCalls == 3

\* EKBOpenSource
EkbId == 641869378
EkbChains == 2
EkbDepth == 9
EkbSignatureLen == 24

\* what an Interface operation can come back with
OpOutcomes == {"ok", "err", "panic"}
OpFailure(op, o) == IF o = "panic" THEN Panic(op) ELSE Err(op)

\* byte strings are kept by name and length
HostNonces == {[id |-> "h1", len |-> 8], [id |-> "h2", len |-> 8]}
DeviceNonces == {[id |-> "d1", len |-> 8], [id |-> "d2", len |-> 8],
                 [id |-> "d3", len |-> 4]}
LeafIdLengths == {8, 4}
TrackIndexes == {0, 1}

\* nonce.append(&mut devnonce): the value handed to retailmac
RetailMacInput_DeviceFirst(h, d) == <<d, h>>

RetailMacInput(h, d) == <<h, d>>

\* retailmac(key, value, iv): 8 bytes; value[8..] must be 8 bytes long
\* (copy_from_slice panics otherwise)
retailmac(key, value, iv) ==
    IF value[2].len # 8
      THEN Panic("copy_from_slice")
      ELSE Ok([len |-> 8, mac |-> <<key, value[1].id, value[2].id, iv>>])

\* operating states prepare_download waits for
ReadyStates == {"DiscBlank", "Ready"}
\* device_status(): Playing without a disc counts as Ready; an unknown
\* status word is None, which prepare_download reads as NoDisc
DeviceState(word, disc_present) ==
    IF word = "Playing" /\ ~disc_present THEN "Ready"
    ELSE IF word = "unknown" THEN "NoDisc" ELSE word
StatusWords == {"Ready", "DiscBlank", "Playing", "ReadingTOC", "unknown"}

Step(op, o, arg) == steps' = Append(steps, [op |-> op, r |-> o, arg |-> arg])
NoArg == <<>>

InDownload == scall.op = "download"

\* `?` inside download: the error leaves download; on an MDSession called
\* directly the call returns it
SessionFail(r) ==
    /\ sres' = r
    /\ spc' = IF InDownload \/ IsPanic(r) THEN "done" ELSE "ret"

\* the end of init, download_track and close: download goes on with its
\* next statement, a direct call returns Ok
SessionPartDone(next, v) ==
    IF InDownload
      THEN spc' = next /\ sres' = sres
      ELSE spc' = "ret" /\ sres' = Ok(v)

\* NetMDContext::download(track, progress_callback)
DownloadCall ==
    /\ SessionOnly
    /\ spc = "idle"
    /\ \E fw \in BOOLEAN :
         scall' = [op |-> "download", full_width |-> fw, n |-> 1, waits |-> 0,
                   entry_key |-> hex_session_key, entry_steps |-> Len(steps)]
    /\ spc' = "prep_wait"
    /\ UNCHANGED <<hex_session_key, steps, sres>>

\* a call on an MDSession made with MDSession::new
SessionCall ==
    /\ SessionOnly
    /\ spc \in {"idle", "ret"}
    /\ scall.op # "download"
    /\ scall.op # "none" => scall.n < MaxSessionCalls
    /\ \E op \in {"init", "close", "download_track"}, fw \in BOOLEAN :
         /\ scall' = [op |-> op,
                      full_width |-> IF op = "download_track" THEN fw ELSE FALSE,
                      n |-> IF scall.op = "none" THEN 1 ELSE scall.n + 1,
                      waits |-> 0,
                      entry_key |-> hex_session_key, entry_steps |-> Len(steps)]
         /\ spc' = CASE op = "init" -> "init_enter"
                     [] op = "close" -> "close"
                     [] op = "download_track" -> "dl_setup"
    /\ sres' = None
    /\ UNCHANGED <<hex_session_key, steps>>

\* `let _ = self.interface.<op>(..).await`: the result is dropped, a panic
\* is not
IgnoredOp(op, arg, next) ==
    \E o \in OpOutcomes :
        /\ Step(op, o, arg)
        /\ IF o = "panic" THEN SessionFail(Panic(op))
                          ELSE spc' = next /\ sres' = sres

\* prepare_download
prepare_download ==
    /\ SessionOnly
    /\ \/ /\ spc = "prep_wait"
          /\ scall.waits < MaxIdleWaits
          /\ \E o \in OpOutcomes :
               /\ Step("device_status", o, NoArg)
               /\ IF o # "ok"
                    THEN SessionFail(OpFailure("device_status", o)) /\ UNCHANGED scall
                    ELSE \E w \in StatusWords, present \in BOOLEAN :
                           IF DeviceState(w, present) \in ReadyStates
                             THEN spc' = "prep_forget" /\ UNCHANGED <<scall, sres>>
                             ELSE /\ scall' = [scall EXCEPT !.waits = @ + 1]
                                  /\ UNCHANGED <<spc, sres>>
       \/ /\ spc = "prep_forget"
          /\ IgnoredOp("session_key_forget", NoArg, "prep_leave")
          /\ UNCHANGED scall
       \/ /\ spc = "prep_leave"
          /\ IgnoredOp("leave_secure_session", NoArg, "prep_acquire")
          /\ UNCHANGED scall
       \/ /\ spc = "prep_acquire"
          /\ \E o \in OpOutcomes :
               /\ Step("acquire", o, NoArg)
               /\ IF o = "ok" THEN spc' = "prep_protect" /\ UNCHANGED sres
                              ELSE SessionFail(OpFailure("acquire", o))
          /\ UNCHANGED scall
       \/ /\ spc = "prep_protect"
          /\ IgnoredOp("disable_new_track_protection", 1, "init_enter")
          /\ UNCHANGED scall
    /\ UNCHANGED hex_session_key

\* send_key_data: the depth is checked before the query is made
SendKeyDataDepthOk(depth) == depth \in 1..63

\* one `self.md.<op>(..).await?` of MDSession
SessionOp(op, arg, next) ==
    \E o \in OpOutcomes :
        /\ Step(op, o, arg)
        /\ IF o = "ok" THEN spc' = next /\ sres' = sres
                       ELSE SessionFail(OpFailure(op, o))

\* MDSession::init
MDSessionInit ==
    /\ SessionOnly
    /\ \/ /\ spc = "init_enter"
          /\ SessionOp("enter_secure_session", NoArg, "init_leaf")
          /\ UNCHANGED hex_session_key
       \/ /\ spc = "init_leaf"
          /\ \E o \in OpOutcomes, len \in LeafIdLengths :
               /\ Step("leaf_id", o, NoArg)
               /\ CASE o # "ok" -> SessionFail(OpFailure("leaf_id", o))
                    [] o = "ok" /\ len # 8 -> SessionFail(Panic("try_into"))
                    [] OTHER -> spc' = "init_key" /\ sres' = sres
          /\ UNCHANGED hex_session_key
       \/ /\ spc = "init_key"
          /\ IF SendKeyDataDepthOk(EkbDepth)
               THEN SessionOp("send_key_data",
                              [ekbid |-> EkbId, chains |-> EkbChains,
                               depth |-> EkbDepth, signature |-> EkbSignatureLen],
                              "init_exchange")
               ELSE SessionFail(Err("InvalidDepth")) /\ UNCHANGED steps
          /\ UNCHANGED hex_session_key
       \/ /\ spc = "init_exchange"
          /\ \E h \in HostNonces, o \in OpOutcomes :
               IF o # "ok"
                 THEN /\ Step("session_key_exchange", o, [nonce |-> h, devnonce |-> None])
                      /\ SessionFail(OpFailure("session_key_exchange", o))
                      /\ UNCHANGED hex_session_key
                 ELSE \E d \in DeviceNonces :
                        LET key == retailmac("root_key", RetailMacInput(h, d), "zero") IN
                        /\ Step("session_key_exchange", o, [nonce |-> h, devnonce |-> d])
                        /\ IF IsPanic(key)
                             THEN SessionFail(key) /\ UNCHANGED hex_session_key
                             ELSE /\ hex_session_key' = Ok(key.v)
                                  /\ SessionPartDone("dl_setup", <<>>)
    /\ UNCHANGED scall

\* the guard of download_track, left out
SessionNotInitialised_Never(key) == FALSE

\* download_track: `if self.hex_session_key.is_none()`
SessionNotInitialised(key) == key = None

\* MDSession::download_track (disc_format None);
\* `self.hex_session_key.as_ref().unwrap()` panics on None
MDSessionDownloadTrack ==
    /\ SessionOnly
    /\ \/ /\ spc = "dl_setup"
          /\ IF SessionNotInitialised(hex_session_key)
               THEN SessionFail(Err("non-init()'ed session")) /\ UNCHANGED steps
               ELSE IF hex_session_key = None
                 THEN SessionFail(Panic("unwrap")) /\ UNCHANGED steps
                 ELSE SessionOp("setup_download", hex_session_key.v, "dl_send")
          /\ UNCHANGED scall
       \/ /\ spc = "dl_send"
          /\ \E o \in OpOutcomes, ti \in TrackIndexes :
               /\ Step("send_track", o, hex_session_key.v)
               /\ IF o = "ok"
                    THEN /\ spc' = "dl_title" /\ sres' = sres
                         /\ scall' = [op |-> scall.op, full_width |-> scall.full_width,
                                      n |-> scall.n, waits |-> scall.waits,
                                      entry_key |-> scall.entry_key,
                                      entry_steps |-> scall.entry_steps,
                                      track_index |-> ti]
                    ELSE SessionFail(OpFailure("send_track", o)) /\ UNCHANGED scall
       \/ /\ spc = "dl_title"
          /\ SessionOp("set_track_title", <<scall.track_index, FALSE>>,
                       IF scall.full_width THEN "dl_fwtitle" ELSE "dl_commit")
          /\ UNCHANGED scall
       \/ /\ spc = "dl_fwtitle"
          /\ SessionOp("set_track_title", <<scall.track_index, TRUE>>, "dl_commit")
          /\ UNCHANGED scall
       \/ /\ spc = "dl_commit"
          /\ \E o \in OpOutcomes :
               /\ Step("commit_track", o, <<scall.track_index, hex_session_key.v>>)
               /\ IF o = "ok"
                    THEN SessionPartDone("close", scall.track_index)
                    ELSE SessionFail(OpFailure("commit_track", o))
          /\ UNCHANGED scall
    /\ UNCHANGED hex_session_key

\* the condition under which close() calls session_key_forget
CloseSendsForget(key) == key = None

\* MDSession::close
MDSessionClose ==
    /\ SessionOnly
    /\ spc = "close"
    /\ IF CloseSendsForget(hex_session_key)
         THEN \E o \in OpOutcomes :
                /\ Step("session_key_forget", o, NoArg)
                /\ IF o = "ok"
                     THEN hex_session_key' = None /\ SessionPartDone("release", <<>>)
                     ELSE SessionFail(OpFailure("session_key_forget", o))
                          /\ UNCHANGED hex_session_key
         ELSE /\ hex_session_key' = None
              /\ SessionPartDone("release", <<>>)
              /\ UNCHANGED steps
    /\ UNCHANGED scall

\* the end of download: self.interface.release().await?; Ok(result)
DownloadRelease ==
    /\ SessionOnly
    /\ spc = "release"
    /\ \E o \in OpOutcomes :
         /\ Step("release", o, NoArg)
         /\ spc' = "done"
         /\ sres' = IF o = "ok" THEN Ok(scall.track_index) ELSE OpFailure("release", o)
    /\ UNCHANGED <<scall, hex_session_key>>

(***************************************************************************)
(* Session claims                                                          *)
(***************************************************************************)
\* what the device has seen since the current call was made
CallLog == SubSeq(steps, scall.entry_steps + 1, Len(steps))
OpNames(log) == [i \in 1..Len(log) |-> log[i].op]
CountOp(log, op) == Cardinality({i \in 1..Len(log) : log[i].op = op})

\* C8: MDSession.close on a secure-open session (key derived by init) sends
\* session_key_forget to the device exactly once and leaves the session key
\* None.
C8_CloseForgetsOnce ==
    (scall.op = "close" /\ spc = "ret" /\ scall.entry_key # None)
        => /\ hex_session_key = None
           /\ CountOp(CallLog, "session_key_forget") = 1

InitOrder ==
    <<"enter_secure_session", "leaf_id", "send_key_data", "session_key_exchange">>
InitPcs == {"init_enter", "init_leaf", "init_key", "init_exchange"}
RECURSIVE LastIndexOf(_, _, _)
LastIndexOf(log, op, i) ==
    IF i = 0 THEN 0
    ELSE IF log[i].op = op THEN i ELSE LastIndexOf(log, op, i - 1)
\* the steps of the init in progress or just returned
InitLog ==
    IF scall.op = "init"
      THEN CallLog
      ELSE SubSeq(steps,
                  LastIndexOf(steps, "disable_new_track_protection", Len(steps)) + 1,
                  Len(steps))
InInit ==
    \/ scall.op = "init"
    \/ InDownload /\ (spc \in InitPcs \/ spc = "dl_setup")
InitReturnedOk ==
    \/ scall.op = "init" /\ spc = "ret" /\ IsOk(sres)
    \/ InDownload /\ spc = "dl_setup"

\* C9: MDSession.init issues enter_secure_session, leaf_id, send_key_data
\* (fixed EKB id, 2 chains, depth 9, 24-byte signature) and
\* session_key_exchange with an 8-byte host nonce, in this order and each only
\* after the previous one succeeded; the session key is set, to the 8-byte
\* MAC of host nonce followed by device nonce, only after all four succeeded,
\* and an init that fails leaves the key as it was on entry (None on a new
\* session).
C9_InitOrderAndKey ==
    InInit =>
      /\ Len(InitLog) <= 4
      /\ \A i \in 1..Len(InitLog) :
           /\ InitLog[i].op = InitOrder[i]
           /\ i < Len(InitLog) => InitLog[i].r = "ok"
           /\ i = 3 => InitLog[i].arg = [ekbid |-> 641869378, chains |-> 2,
                                         depth |-> 9, signature |-> 24]
           /\ i = 4 => InitLog[i].arg.nonce.len = 8
      /\ InitReturnedOk =>
           /\ Len(InitLog) = 4
           /\ InitLog[4].r = "ok"
           /\ hex_session_key # None
           /\ hex_session_key.v.len = 8
           /\ hex_session_key.v.mac =
                <<"root_key", InitLog[4].arg.nonce.id, InitLog[4].arg.devnonce.id, "zero">>
      /\ ~InitReturnedOk => hex_session_key = scall.entry_key

C9_Witness ==
    /\ scall.op = "init"
    /\ scall.entry_key = None
    /\ spc = "ret"
    /\ IsOk(sres)
    /\ hex_session_key # None
    /\ Len(CallLog) = 4

RECURSIVE DropLeading(_, _)
DropLeading(ops, op) ==
    IF ops # <<>> /\ Head(ops) = op THEN DropLeading(Tail(ops), op) ELSE ops

\* the order of protocol steps the device is to see in a download
DownloadOrder(full_width) ==
    <<"session_key_forget", "leave_secure_session", "acquire",
      "disable_new_track_protection",
      "enter_secure_session", "leaf_id", "send_key_data", "session_key_exchange",
      "setup_download", "send_track", "commit_track", "set_track_title">>
    \o (IF full_width THEN <<"set_track_title">> ELSE <<>>)
    \o <<"session_key_forget", "release">>

\* C10: in every successful NetMDContext::download the device sees prepare
\* (idle wait, forget/leave, acquire), session init, setup_download,
\* send_track, commit_track, the track title writes, session close, release,
\* in this order; commit_track comes after send_track and before any
\* set_track_title.
C10_DownloadOrder ==
    (InDownload /\ spc = "done" /\ IsOk(sres))
        => DropLeading(OpNames(CallLog), "device_status")
             = DownloadOrder(scall.full_width)

\* the first step of log, after position from, that sent op (0: none)
RECURSIVE FirstIndexOf(_, _, _)
FirstIndexOf(log, op, from) ==
    IF from >= Len(log) THEN 0
    ELSE IF log[from + 1].op = op THEN from + 1
    ELSE FirstIndexOf(log, op, from + 1)
\* the step at which acquire succeeded in the current download (0: none)
AcquiredAt ==
    LET i == FirstIndexOf(CallLog, "acquire", 0) IN
    IF i # 0 /\ CallLog[i].r = "ok" THEN i ELSE 0

\* C11: every NetMDContext::download in which acquire succeeded returns, with
\* Ok or with an error, only after session_key_forget has been attempted and
\* release has been issued to the device.
C11_DownloadCleansUp ==
    (InDownload /\ spc = "done" /\ ~IsPanic(sres) /\ AcquiredAt # 0)
        => /\ FirstIndexOf(CallLog, "session_key_forget", AcquiredAt) # 0
           /\ FirstIndexOf(CallLog, "release", AcquiredAt) # 0

(***************************************************************************)
(* Encryptor: netmd/encryption.rs                                          *)
(***************************************************************************)
\* bounds: longest payload, and most next() calls made on one Encryptor
MaxPayloadLen == 17
MaxNextCalls == 4

\* DES works on blocks of 8 bytes; the first packet leaves room for the
\* 24-byte preamble
BlockSize == 8
PreambleLen == 24
DEFAULT_CHUNK_SIZE == 1048576

\* MDTrack::get_kek
Kek == <<20, 227, 131, 78, 226, 211, 204, 165>>
\* rand::rng().fill_bytes(&mut random_key)
RandomKeys == {<<1, 2, 3, 4, 5, 6, 7, 8>>, <<11, 12, 13, 14, 15, 16, 17, 18>>}
FrameSizes == {8, 16}
ChunkSizes_Encryptor == {0, 8, 24, 28, 32, 40}
\* input.data: byte i of a payload is i
Payload(n) == [i \in 1..n |-> i % 256]
Zeros(n) == [i \in 1..n |-> 0]

\* DES on one block, taken as a keyed permutation of blocks that works byte
\* by byte; DesDecryptBlock is its inverse
DesEncryptByte(k, x) == (5 * x + k + 1) % 256
DesDecryptByte(k, y) == (205 * (y + 512 - k - 1)) % 256
DesDecryptBlock(key, block) == [i \in 1..BlockSize |-> DesDecryptByte(key[i], block[i])]

\* DesCbcEnc::new(key, iv).encrypt_padded_mut::<NoPadding>(data, len):
\* each block is combined with the previous ciphertext block (the iv for the
\* first) and encrypted; the combination (xor) is taken as addition mod 256
CbcEncrypt(key, iv, data) ==
    LET c[j \in 1..Len(data)] ==
          LET prev == IF j <= BlockSize THEN iv[j] ELSE c[j - BlockSize] IN
          DesEncryptByte(key[((j - 1) % BlockSize) + 1], (data[j] + prev) % 256)
    IN  [j \in 1..Len(data) |-> c[j]]

\* NoPadding: a length that is not a whole number of blocks is a PadError
PadError(len) == len % BlockSize # 0

\* let default_chunk_size = match input.chunk_size { 0 => 0x00100000, e => e }
DefaultChunkSize(chunk_size) == IF chunk_size = 0 THEN DEFAULT_CHUNK_SIZE ELSE chunk_size

\* input_data: input.data extended with zeros to a multiple of frame_size
PadToFrame(data, frame_size) ==
    IF Len(data) % frame_size # 0
      THEN data \o Zeros(frame_size - (Len(data) % frame_size))
      ELSE data

\* default_chunk_size - 24 on usize: below zero it panics with overflow
\* checks and wraps without
FirstChunkUnderflows(dcs) == dcs < PreambleLen
FirstChunkSize(dcs) ==
    IF FirstChunkUnderflows(dcs) THEN dcs - PreambleLen + UsizeMod ELSE dcs - PreambleLen

\* the iv is left as it was
NextIv_Unchanged(enc) == Zeros(BlockSize)

\* iv.copy_from_slice(&this_data_chunk[this_data_chunk.len() - 8..])
NextIv(enc) == SubSeq(enc, Len(enc) - BlockSize + 1, Len(enc))

\* one pass of the packet code shared by the producer loop and next():
\* st has input_data, iv, random_key, encrypted_random_key,
\* default_chunk_size, offset, packet_count. The result tells where the pass
\* stopped: "panic_before" (nothing emitted), "panic_after" (the packet was
\* emitted, then the pass panicked) or "ok"
PacketPass(st) ==
    LET dcs == st.default_chunk_size
        underflow == st.packet_count = 0 /\ FirstChunkUnderflows(dcs)
        ccs0 == IF st.packet_count > 0 THEN dcs ELSE FirstChunkSize(dcs)
        ccs == Min(ccs0, Len(st.input_data) - st.offset)
        chunk == SubSeq(st.input_data, st.offset + 1, st.offset + ccs)
        enc == CbcEncrypt(st.random_key, st.iv, chunk)
        packet == [key |-> st.encrypted_random_key, iv |-> st.iv, data |-> enc]
    IN
    IF underflow /\ overflow_checks
      THEN [how |-> "panic_before", why |-> "overflow"]
    ELSE IF PadError(ccs)
      THEN [how |-> "panic_before", why |-> "PadError"]
    ELSE IF Len(enc) < BlockSize
      THEN [how |-> "panic_after", why |-> "slice", packet |-> packet]
    ELSE [how |-> "ok", packet |-> packet,
          st |-> [st EXCEPT
                    !.input_data = [j \in 1..Len(st.input_data) |->
                                      IF j > st.offset /\ j <= st.offset + ccs
                                        THEN enc[j - st.offset] ELSE st.input_data[j]],
                    !.iv = NextIv(enc),
                    !.current_chunk_size = ccs,
                    !.packet_count = st.packet_count + 1,
                    !.offset = st.offset + ccs]]

\* the state both constructors compute from the input
NewState(input, random_key) ==
    [input_data |-> PadToFrame(input.data, input.frame_size),
     iv |-> Zeros(BlockSize),
     random_key |-> random_key,
     encrypted_random_key |-> DesDecryptBlock(input.kek, random_key),
     default_chunk_size |-> DefaultChunkSize(input.chunk_size),
     current_chunk_size |-> 0,
     offset |-> 0,
     packet_count |-> 0,
     closed |-> FALSE]

Modes == {"inline", "threaded"}
Consumers == {"caller", "send_track"}

\* Encryptor::new (inline) or Encryptor::new_threaded (threaded) on an input
EncryptorNew ==
    /\ EncryptorOnly
    /\ einput = None
    /\ \E n \in 0..MaxPayloadLen, f \in FrameSizes, cs \in ChunkSizes_Encryptor,
          rk \in RandomKeys, mode \in Modes, user \in Consumers :
         LET input == [kek |-> Kek, frame_size |-> f, data |-> Payload(n),
                       chunk_size |-> cs] IN
         /\ einput' = [input |-> input, random_key |-> rk, mode |-> mode, user |-> user]
         /\ state' = IF mode = "inline" THEN Ok(NewState(input, rk)) ELSE None
         /\ thread' = IF mode = "threaded"
                        THEN [pc |-> "run", st |-> NewState(input, rk)] ELSE None
         /\ channel' = IF mode = "threaded"
                         THEN Ok([queue |-> <<>>, closed |-> FALSE]) ELSE None
         /\ strack' = IF user = "send_track" THEN [pc |-> "call"] ELSE None
    /\ UNCHANGED <<outs, closes, bulk>>

Threaded == einput # None /\ einput.mode = "threaded"
Inline == einput # None /\ einput.mode = "inline"

\* the sending half is gone once the producer thread has ended or panicked
TxDropped == thread.pc \in {"ended", "panicked"}

\* one pass of the producer's `while offset < input_data_length`
Producer ==
    /\ EncryptorOnly
    /\ Threaded
    /\ thread.pc = "run"
    /\ IF thread.st.offset >= Len(thread.st.input_data)
         THEN thread' = [thread EXCEPT !.pc = "ended"] /\ UNCHANGED channel
         ELSE LET r == PacketPass(thread.st) IN
              CASE r.how = "panic_before" ->
                     /\ thread' = [thread EXCEPT !.pc = "panicked"]
                     /\ UNCHANGED channel
                [] r.how # "panic_before" /\ channel.v.closed ->
                     \* tx.send(..) fails on a closed channel, .unwrap() panics
                     /\ thread' = [thread EXCEPT !.pc = "panicked"]
                     /\ UNCHANGED channel
                [] r.how = "panic_after" /\ ~channel.v.closed ->
                     /\ channel' = Ok([channel.v EXCEPT !.queue = Append(@, r.packet)])
                     /\ thread' = [thread EXCEPT !.pc = "panicked"]
                [] OTHER ->
                     /\ channel' = Ok([channel.v EXCEPT !.queue = Append(@, r.packet)])
                     /\ thread' = [thread EXCEPT !.st = r.st]
    /\ UNCHANGED <<einput, state, outs, closes, strack, bulk>>

\* Encryptor::next, state branch: the new state and the value returned (a
\* panic unwinds out of next)
NextInline(es) ==
    IF es.closed THEN [st |-> es, out |-> None]
    ELSE LET r == PacketPass(es) IN
         IF r.how = "ok" THEN [st |-> r.st, out |-> Ok(r.packet)]
                         ELSE [st |-> es, out |-> Panic(r.why)]

\* Encryptor::next, channel branch: channel.recv().await gives the oldest
\* queued packet, None when the queue is empty and the channel is closed or
\* the sender gone, and waits otherwise
NextThreaded(ch) ==
    IF ch.queue # <<>>
      THEN [ch |-> [ch EXCEPT !.queue = Tail(@)], out |-> Ok(Head(ch.queue))]
      ELSE [ch |-> ch, out |-> None]

\* whether next() returns now
CanNext ==
    \/ Inline
    \/ Threaded /\ (channel.v.queue # <<>> \/ channel.v.closed \/ TxDropped)

\* Encryptor::next: the value returned, and the Encryptor afterwards
NextOut ==
    IF Inline THEN NextInline(state.v).out ELSE NextThreaded(channel.v).out
next ==
    IF Inline
      THEN state' = Ok(NextInline(state.v).st) /\ UNCHANGED channel
      ELSE channel' = Ok(NextThreaded(channel.v).ch) /\ UNCHANGED state

Panicked == outs # <<>> /\ IsPanic(outs[Len(outs)])

\* a caller's next()
CallerNext ==
    /\ EncryptorOnly
    /\ einput # None /\ einput.user = "caller"
    /\ Len(outs) < MaxNextCalls
    /\ ~Panicked
    /\ CanNext
    /\ next
    /\ outs' = Append(outs, NextOut)
    /\ UNCHANGED <<einput, thread, closes, strack, bulk>>

\* Encryptor::close
CloseInline(es) == [es EXCEPT !.closed = TRUE]
CloseThreaded(ch) == [ch EXCEPT !.closed = TRUE]
close ==
    IF Inline
      THEN state' = Ok(CloseInline(state.v)) /\ UNCHANGED channel
      ELSE channel' = Ok(CloseThreaded(channel.v)) /\ UNCHANGED state

\* a caller's close()
CallerClose ==
    /\ EncryptorOnly
    /\ einput # None /\ einput.user = "caller"
    /\ closes = None
    /\ ~Panicked
    /\ close
    /\ closes' = Ok(Len(outs))
    /\ UNCHANGED <<einput, thread, outs, strack, bulk>>

(***************************************************************************)
(* NetMDInterface::send_track, called by MDSession::download_track         *)
(***************************************************************************)
\* MDTrack::total_size and MDTrack::frame_count, for a track whose data has
\* len bytes and whose format has frames of frame_size bytes
total_size(len, frame_size) ==
    IF len % frame_size # 0 THEN len + (frame_size - (len % frame_size)) ELSE len
frame_count(len, frame_size) == total_size(len, frame_size) \div frame_size

\* pkt_size.to_be_bytes()
BE32(n) ==
    <<(n \div 16777216) % 256, (n \div 65536) % 256, (n \div 256) % 256, n % 256>>

\* lengths of hex_session_key a caller can pass
SessionKeyLengths == {8, 7}
DeviceAnswers == {"ok", "err"}

Did(e) == bulk' = Append(bulk, e)
SendTrackReturn(r) == strack' = [strack EXCEPT !.pc = "done", !.res = r]

\* download_track: send_track(.., track.frame_count(), track.total_size(),
\* track.get_encrypting_iterator(), key, ..); send_track up to the bulk loop
SendTrackCall ==
    /\ EncryptorOnly
    /\ strack # None /\ strack.pc = "call"
    /\ \E keylen \in SessionKeyLengths, o \in {"ok", "send_query", "scan_query", "poll"} :
         LET pkt_size == total_size(Len(einput.input.data), einput.input.frame_size)
             frames == frame_count(Len(einput.input.data), einput.input.frame_size)
             total_bytes == pkt_size + PreambleLen
             locals == [pc |-> "loop", pkt_size |-> pkt_size, total_bytes |-> total_bytes,
                        written_bytes |-> 0, packet_count |-> 0, res |-> None,
                        hex_session_key_len |-> keylen] IN
         IF keylen # 8
           THEN /\ strack' = [locals EXCEPT !.pc = "done", !.res = Err("InvalidLength")]
                /\ UNCHANGED bulk
           ELSE /\ Did([t |-> "query", frames |-> frames, total_bytes |-> total_bytes,
                        r |-> o])
                /\ strack' = IF o = "ok" THEN locals
                             ELSE [locals EXCEPT !.pc = "done", !.res = Err(o)]
    /\ UNCHANGED <<einput, state, thread, channel, outs, closes>>

\* every packet gets the preamble
BinPack_PreambleAlways(packet_count, pkt_size, packet) ==
    <<0, 0, 0, 0>> \o BE32(pkt_size) \o packet.key \o packet.iv \o packet.data

\* what goes into the bulk write for a packet
BinPack(packet_count, pkt_size, packet) ==
    IF packet_count = 0
      THEN <<0, 0, 0, 0>> \o BE32(pkt_size) \o packet.key \o packet.iv \o packet.data
      ELSE packet.data

\* one pass of `while let Some((key, iv, data)) = packets.next().await`
SendTrackLoop ==
    /\ EncryptorOnly
    /\ strack # None /\ strack.pc = "loop"
    /\ CanNext
    /\ outs' = Append(outs, NextOut)
    /\ CASE IsPanic(NextOut) ->
              /\ next
              /\ SendTrackReturn(NextOut)
              /\ UNCHANGED <<bulk, closes>>
         [] NextOut = None ->
              /\ next
              /\ strack' = [strack EXCEPT !.pc = "reply"]
              /\ UNCHANGED <<bulk, closes>>
         [] OTHER ->
              \E o \in DeviceAnswers :
                LET binpack == BinPack(strack.packet_count, strack.pkt_size, NextOut.v)
                    written == strack.written_bytes + Len(binpack) IN
                IF o # "ok"
                  THEN /\ next
                       /\ Did([t |-> "write_bulk", data |-> binpack, r |-> o])
                       /\ SendTrackReturn(Err("write_bulk"))
                       /\ UNCHANGED closes
                  ELSE IF strack.total_bytes = written
                    THEN \* packets.close(); break
                         /\ IF Inline
                              THEN /\ state' = Ok(CloseInline(NextInline(state.v).st))
                                   /\ UNCHANGED channel
                              ELSE /\ channel' = Ok(CloseThreaded(NextThreaded(channel.v).ch))
                                   /\ UNCHANGED state
                         /\ closes' = Ok(Len(outs'))
                         /\ bulk' = bulk \o <<[t |-> "write_bulk", data |-> binpack, r |-> o],
                                             [t |-> "progress", total |-> strack.total_bytes,
                                              written |-> written],
                                             [t |-> "close"]>>
                         /\ strack' = [strack EXCEPT !.pc = "reply",
                                                     !.written_bytes = written,
                                                     !.packet_count = @ + 1]
                    ELSE /\ next
                         /\ bulk' = bulk \o <<[t |-> "write_bulk", data |-> binpack, r |-> o],
                                             [t |-> "progress", total |-> strack.total_bytes,
                                              written |-> written]>>
                         /\ strack' = [strack EXCEPT !.written_bytes = written,
                                                     !.packet_count = @ + 1]
                         /\ UNCHANGED closes
    /\ UNCHANGED <<einput, thread>>

\* after the loop: the terminal reply is read, polled for and scanned
SendTrackReply ==
    /\ EncryptorOnly
    /\ strack # None /\ strack.pc = "reply"
    /\ \E o \in {"ok", "read_reply", "poll", "scan_query"} :
         /\ Did([t |-> "read_reply", r |-> o])
         /\ SendTrackReturn(IF o = "ok" THEN Ok("track_index, uuid, ccid") ELSE Err(o))
    /\ UNCHANGED <<einput, state, thread, channel, outs, closes>>

(***************************************************************************)
(* Encryptor claims                                                        *)
(***************************************************************************)
RECURSIVE InlineRun(_, _)
\* what n calls of next() return on an inline Encryptor in state es (a call
\* that panics is the last)
InlineRun(es, n) ==
    IF n = 0 THEN <<>>
    ELSE LET r == NextInline(es) IN
         IF IsPanic(r.out) THEN <<r.out>>
                           ELSE <<r.out>> \o InlineRun(r.st, n - 1)

\* the inline Encryptor made from the input and content key of this run
InlineTwin == NewState(einput.input, einput.random_key)

\* C12: for the same input and content key, the values returned by repeated
\* next() calls on a threaded Encryptor are the values an inline Encryptor
\* returns: the same packets in the same order, then None.
C12_ModesAgree ==
    (Threaded /\ einput.user = "caller" /\ closes = None)
        => LET twin == InlineRun(InlineTwin, Len(outs)) IN
           /\ Len(twin) = Len(outs)
           /\ \A i \in 1..Len(outs) : outs[i] = twin[i]

\* the packets the Encryptor has emitted: those next() returned and, for the
\* threaded one, those still queued
OkPackets(rs) == SelectSeq(rs, LAMBDA r : IsOk(r))
Emitted ==
    [i \in 1..Len(OkPackets(outs)) |-> OkPackets(outs)[i].v]
    \o (IF Threaded THEN channel.v.queue ELSE <<>>)
RECURSIVE SumLen(_)
SumLen(packets) ==
    IF packets = <<>> THEN 0 ELSE Len(Head(packets).data) + SumLen(Tail(packets))
RECURSIVE Concat(_)
Concat(packets) ==
    IF packets = <<>> THEN <<>> ELSE Head(packets).data \o Concat(Tail(packets))

\* nothing more will be emitted: the producer thread is gone, or the inline
\* Encryptor has come to the end of its data or has panicked
RunOver ==
    IF Threaded THEN TxDropped
    ELSE Panicked \/ state.v.offset = Len(state.v.input_data)
PaddedLen == CeilDiv(Len(einput.input.data), einput.input.frame_size)
               * einput.input.frame_size
PaddedData == PadToFrame(einput.input.data, einput.input.frame_size)

\* C13: the payload is extended with zero bytes to ceil(|P|/F)*F bytes
\* (unchanged when already a multiple of F); the ciphertext lengths of all
\* emitted packets add up to that padded length, which is also
\* MDTrack.total_size() and frame_size * MDTrack.frame_count().
C13_PaddedLengthEmitted ==
    (einput # None /\ closes = None) =>
      LET P == einput.input.data
          F == einput.input.frame_size IN
      /\ Len(PaddedData) = PaddedLen
      /\ SubSeq(PaddedData, 1, Len(P)) = P
      /\ \A i \in Len(P) + 1 .. PaddedLen : PaddedData[i] = 0
      /\ Len(P) % F = 0 => PaddedData = P
      /\ total_size(Len(P), F) = PaddedLen
      /\ F * frame_count(Len(P), F) = PaddedLen
      /\ RunOver => SumLen(Emitted) = PaddedLen

\* the Encryptor's own record of its progress
EncState == IF Threaded THEN thread.st ELSE state.v
\* bytes of the padded payload left before packet k (k from 1) was cut
RemainingBefore(k) == PaddedLen - SumLen(SubSeq(Emitted, 1, k - 1))

\* C14: with default_chunk = chunk_size, or 0x00100000 when chunk_size is 0,
\* packet 0 has min(default_chunk - 24, padded_len) bytes of ciphertext and
\* every later packet min(default_chunk, remaining); every emitted packet is
\* non-empty; 0 <= offset <= padded_len and padded_len is a multiple of
\* frame_size after every step.
C14_PacketSizes ==
    einput # None =>
      LET default_chunk == IF einput.input.chunk_size = 0
                             THEN 1048576 ELSE einput.input.chunk_size IN
      /\ \A k \in 1..Len(Emitted) :
           /\ Len(Emitted[k].data) =
                IF k = 1 THEN Min(default_chunk - 24, PaddedLen)
                         ELSE Min(default_chunk, RemainingBefore(k))
           /\ Len(Emitted[k].data) > 0
      /\ EncState.offset >= 0
      /\ EncState.offset <= Len(EncState.input_data)
      /\ Len(EncState.input_data) = PaddedLen
      /\ Len(EncState.input_data) % einput.input.frame_size = 0

\* the producer came to the end of its loop, the inline Encryptor to the
\* end of its data
AllPacketsEmitted ==
    IF Threaded THEN thread.pc = "ended"
    ELSE ~Panicked /\ state.v.offset = Len(state.v.input_data)
WholeCiphertext == CbcEncrypt(einput.random_key, Zeros(BlockSize), PaddedData)

\* C15: packet 0 reports an IV of eight zero bytes; packet k >= 1 reports,
\* and is encrypted with, the last 8 bytes of packet k-1's ciphertext; every
\* packet carries the same wrapped key; the packet ciphertexts, one after the
\* other, are one CBC encryption with IV = 0 of the padded payload (of as
\* much of it as has been emitted, of all of it once every packet is out).
C15_IvChaining ==
    einput # None =>
      /\ \A k \in 1..Len(Emitted) :
           LET before == SumLen(SubSeq(Emitted, 1, k - 1))
               plain == SubSeq(PaddedData, before + 1, before + Len(Emitted[k].data))
               prev == Emitted[k - 1].data IN
           /\ k = 1 => Emitted[k].iv = <<0, 0, 0, 0, 0, 0, 0, 0>>
           /\ k > 1 => /\ Len(prev) >= 8
                       /\ Emitted[k].iv = SubSeq(prev, Len(prev) - 7, Len(prev))
           /\ Emitted[k].data = CbcEncrypt(einput.random_key, Emitted[k].iv, plain)
           /\ Emitted[k].key = Emitted[1].key
           /\ Emitted[k].key = DesDecryptBlock(einput.input.kek, einput.random_key)
      /\ Concat(Emitted) = SubSeq(WholeCiphertext, 1, SumLen(Emitted))
      /\ (AllPacketsEmitted /\ closes = None) => Concat(Emitted) = WholeCiphertext

C15_Witness ==
    /\ einput # None
    /\ AllPacketsEmitted
    /\ closes = None
    /\ Len(Emitted) >= 2
    /\ Len(Emitted[1].data) = 16
    /\ Len(einput.input.data) % einput.input.frame_size # 0

BulkWrites == SelectSeq(bulk, LAMBDA e : e.t = "write_bulk")
Queries == SelectSeq(bulk, LAMBDA e : e.t = "query")

\* C16: send_track announces pkt_size + 24 bytes; the first bulk write is the
\* 24-byte preamble 00 00 00 00, pkt_size as big-endian u32, the 8-byte
\* wrapped key and the 8-byte IV, followed by the first packet's ciphertext;
\* every later bulk write is that packet's ciphertext only, one bulk write
\* per packet in producer order.
C16_WireFraming ==
    (strack # None /\ strack.pc # "call") =>
      LET packets == OkPackets(outs) IN
      /\ \A i \in 1..Len(Queries) : Queries[i].total_bytes = strack.pkt_size + 24
      /\ BulkWrites # <<>> => (Len(Queries) = 1 /\ bulk[1].t = "query")
      /\ Len(BulkWrites) = Len(packets)
      /\ \A i \in 1..Len(BulkWrites) :
           LET w == BulkWrites[i].data
               p == Emitted[i] IN
           IF i = 1
             THEN /\ Len(p.key) = 8 /\ Len(p.iv) = 8
                  /\ Len(w) = 24 + Len(p.data)
                  /\ SubSeq(w, 1, 4) = <<0, 0, 0, 0>>
                  /\ w[5] * 16777216 + w[6] * 65536 + w[7] * 256 + w[8] = strack.pkt_size
                  /\ \A j \in 5..8 : w[j] \in 0..255
                  /\ SubSeq(w, 9, 16) = p.key
                  /\ SubSeq(w, 17, 24) = p.iv
                  /\ SubSeq(w, 25, Len(w)) = p.data
             ELSE w = p.data

C16_Witness ==
    /\ strack # None
    /\ strack.pc = "done"
    /\ IsOk(strack.res)
    /\ Len(BulkWrites) = 2
    /\ strack.pkt_size > 0
    /\ \A i \in 1..2 : BulkWrites[i].r = "ok"

\* position of the first event of kind t in bulk (0: none)
RECURSIVE BulkIndex(_, _)
BulkIndex(t, from) ==
    IF from >= Len(bulk) THEN 0
    ELSE IF bulk[from + 1].t = t THEN from + 1 ELSE BulkIndex(t, from + 1)
LoopLeft == strack # None /\ (strack.pc = "reply" \/ BulkIndex("read_reply", 0) # 0)

\* C17: in download_track -> send_track the bulk-write loop ends exactly when
\* the bytes written add up to the announced pkt_size + 24; the consumer then
\* closes the Encryptor and only afterwards reads the terminal reply; no bulk
\* write follows the reading of the terminal reply.
C17_LoopEndsAtTotal ==
    /\ LoopLeft =>
         /\ strack.written_bytes = strack.total_bytes
         /\ closes # None
         /\ BulkIndex("close", 0) # 0
    /\ (strack # None /\ BulkIndex("read_reply", 0) # 0) =>
         /\ BulkIndex("close", 0) < BulkIndex("read_reply", 0)
         /\ BulkIndex("write_bulk", BulkIndex("read_reply", 0)) = 0
    /\ (strack # None /\ strack.pc = "loop") =>
         strack.written_bytes < strack.total_bytes

\* C18: after close() has been called, every later next() returns None, in
\* both modes, also when the producer had already queued packets that the
\* consumer had not yet received.
C18_CloseDropsPending ==
    (einput # None /\ closes # None)
        => \A i \in 1..Len(outs) : i > closes.v => outs[i] = None

(***************************************************************************)
(* Query codec: netmd/query_utils.rs, netmd/utils.rs                       *)
(***************************************************************************)
\* QueryValue
Number(n) == [t |-> "Number", n |-> n]
Array(a) == [t |-> "Array", a |-> a]

\* u8::from_str_radix(.., 16) on one hex digit
HexVal(c) ==
    CASE c = "0" -> 0 [] c = "1" -> 1 [] c = "2" -> 2 [] c = "3" -> 3
      [] c = "4" -> 4 [] c = "5" -> 5 [] c = "6" -> 6 [] c = "7" -> 7
      [] c = "8" -> 8 [] c = "9" -> 9 [] c = "a" -> 10 [] c = "b" -> 11
      [] c = "c" -> 12 [] c = "d" -> 13 [] c = "e" -> 14 [] c = "f" -> 15

\* whether u8::from_str_radix(.., 16) accepts the two characters
HexDigits == {"0", "1", "2", "3", "4", "5", "6", "7", "8", "9", "a", "b", "c", "d", "e", "f"}
IsHexPair(h, c) == h \in HexDigits /\ c \in HexDigits

\* FORMAT_TYPE_LEN_DICT
FORMAT_TYPE_LEN_DICT == [b |-> 1, w |-> 2, d |-> 4, q |-> 8]
IsNumberDirective(c) == c \in {"b", "w", "d", "q"}

\* value as u8
AsU8(v) == v % 256
\* (value as i16).to_be_bytes(), (value as i32).to_be_bytes() and
\* value.to_be_bytes(): two's complement, most significant byte first
\* (values are within the 32-bit range of the model's integers)
BytesBE16(v) == <<(v \div 256) % 256, v % 256>>
BytesBE32(v) ==
    IF v >= 0
      THEN <<(v \div 16777216) % 256, (v \div 65536) % 256, (v \div 256) % 256, v % 256>>
      ELSE LET c == -v - 1 IN
           <<255 - ((c \div 16777216) % 256), 255 - ((c \div 65536) % 256),
             255 - ((c \div 256) % 256), 255 - (c % 256)>>
BytesBE64(v) ==
    (IF v >= 0 THEN <<0, 0, 0, 0>> ELSE <<255, 255, 255, 255>>) \o BytesBE32(v)

\* i16::from_be_bytes, i32::from_be_bytes, i64::from_be_bytes
FromBE16(b) ==
    LET u == b[1] * 256 + b[2] IN IF u >= 32768 THEN u - 65536 ELSE u
FromBE32(b) ==
    IF b[1] >= 128
      THEN -((255 - b[1]) * 16777216 + (255 - b[2]) * 65536
             + (255 - b[3]) * 256 + (255 - b[4])) - 1
      ELSE b[1] * 16777216 + b[2] * 65536 + b[3] * 256 + b[4]
\* (only values that fit 32 bits have a number in the model)
FromBE64(b) ==
    IF \/ SubSeq(b, 1, 4) = <<0, 0, 0, 0>> /\ b[5] < 128
       \/ SubSeq(b, 1, 4) = <<255, 255, 255, 255>> /\ b[5] >= 128
      THEN Ok(FromBE32(SubSeq(b, 5, 8)))
      ELSE Err("beyond 32 bits")

I32Max == 2147483647
RECURSIVE Pow(_, _)
Pow(b, e) == IF e = 0 THEN 1 ELSE b * Pow(b, e - 1)
\* digit << shift on i32 (digit in 0..9, shift in 0..28): bit 31 is the sign
Shl(digit, shift) ==
    IF shift = 28 /\ digit >= 8 THEN (digit - 16) * Pow(2, 28) ELSE digit * Pow(2, shift)

RECURSIVE IntToBcdLoop(_, _, _)
\* the loop of utils::int_to_bcd; the nibbles are disjoint, so `|=` adds
IntToBcdLoop(value, bcd, shift) ==
    IF value > 0
      THEN IntToBcdLoop(value \div 10, bcd + Shl(value % 10, shift), shift + 4)
      ELSE bcd
\* utils::int_to_bcd (value of at most 8 decimal digits)
int_to_bcd(value) == IntToBcdLoop(value, 0, 0)

RECURSIVE BcdToIntLoop(_, _, _)
\* the loop of utils::bcd_to_int on i32: `bcd >>= 4` is an arithmetic shift,
\* so a negative bcd never becomes 0; i32::pow(10, nybble), the product and
\* the sum panic on overflow with overflow checks and wrap without
BcdToIntLoop(bcd, value, nybble) ==
    IF bcd = 0 THEN Ok(value)
    ELSE LET nybble_value == bcd % 16
             overflows == \/ nybble >= 10
                          \/ nybble_value > (I32Max - value) \div Pow(10, nybble) IN
         \* (only a negative bcd gets as far as an overflow)
         IF overflows
           THEN IF overflow_checks THEN Panic("overflow") ELSE [t |-> "Diverges"]
           ELSE BcdToIntLoop(bcd \div 16, value + nybble_value * Pow(10, nybble), nybble + 1)
\* utils::bcd_to_int
bcd_to_int(bcd) == BcdToIntLoop(bcd, 0, 0)

\* one character of the template in format_query; st holds result, half,
\* arg_stack, endianness_override, escaped and, once the call is over, ret
FormatChar(st, character) ==
    LET arg == Head(st.arg_stack)
        noarg == st.arg_stack = <<>>
        st1 == [st EXCEPT !.escaped = FALSE] IN
    IF st.escaped
      THEN IF st.endianness_override = None /\ character \in {"<", ">"}
             THEN [st EXCEPT !.endianness_override = Ok(character)]
           ELSE IF IsNumberDirective(character)
             THEN IF noarg \/ arg.t # "Number"
                    THEN [st1 EXCEPT !.ret = Panic("unwrap")]
                    ELSE [st1 EXCEPT
                            !.result = @ \o (CASE character = "b" -> <<AsU8(arg.n)>>
                                               [] character = "w" -> BytesBE16(arg.n)
                                               [] character = "d" -> BytesBE32(arg.n)
                                               [] character = "q" -> BytesBE64(arg.n)),
                            !.arg_stack = Tail(@),
                            !.endianness_override = None]
           ELSE IF character \in {"x", "s", "z"}
             THEN IF noarg \/ arg.t # "Array"
                    THEN [st1 EXCEPT !.ret = Panic("unwrap")]
                    ELSE LET array_length == Len(arg.a) + (IF character = "s" THEN 1 ELSE 0) IN
                         [st1 EXCEPT
                            !.result = @ \o (IF character # "z"
                                               THEN <<(array_length \div 256) % 256>>
                                               ELSE <<>>)
                                         \o <<array_length % 256>>
                                         \o arg.a
                                         \o (IF character = "s" THEN <<0>> ELSE <<>>),
                            !.arg_stack = Tail(@)]
           ELSE IF character = "*"
             THEN IF noarg \/ arg.t # "Array"
                    THEN [st1 EXCEPT !.ret = Panic("unwrap")]
                    ELSE [st1 EXCEPT !.result = @ \o arg.a, !.arg_stack = Tail(@)]
           ELSE IF character \in {"B", "W"}
             THEN IF noarg \/ arg.t # "Number"
                    THEN [st1 EXCEPT !.ret = Panic("unwrap")]
                    ELSE LET converted == int_to_bcd(arg.n) IN
                         [st1 EXCEPT
                            !.result = @ \o (IF character = "W"
                                               THEN <<(converted \div 256) % 256>>
                                               ELSE <<>>)
                                         \o <<converted % 256>>,
                            !.arg_stack = Tail(@)]
           ELSE [st1 EXCEPT !.ret = Err("Unrecognized format char")]
    ELSE IF character = "%" THEN [st EXCEPT !.escaped = TRUE]
    ELSE IF character = " " THEN st
    ELSE IF st.half = None THEN [st EXCEPT !.half = Ok(character)]
    ELSE IF ~IsHexPair(st.half.v, character) THEN [st EXCEPT !.ret = Panic("unwrap")]
    ELSE [st EXCEPT !.result = Append(@, HexVal(st.half.v) * 16 + HexVal(character)),
                    !.half = None]

RECURSIVE FormatChars(_, _, _)
FormatChars(st, format, i) ==
    IF i > Len(format) THEN Ok(st.result)
    ELSE LET n == FormatChar(st, format[i]) IN
         IF n.ret # None THEN n.ret ELSE FormatChars(n, format, i + 1)

\* format_query(format, args)
format_query(format, args) ==
    FormatChars([result |-> <<>>, half |-> None, arg_stack |-> args,
                 endianness_override |-> None, escaped |-> FALSE, ret |-> None],
                format, 1)

\* utils::get_bytes::<S>: S bytes off the input, .unwrap() on fewer
HasBytes(input, n) == Len(input) >= n
Take(input, n) == SubSeq(input, 1, n)
Drop(input, n) == SubSeq(input, n + 1, Len(input))

\* one character of the template in scan_query; st holds result, half,
\* input_stack, endianness_override, escaped and, once the call is over, ret
ScanChar(st, character) ==
    LET input == st.input_stack
        st1 == [st EXCEPT !.escaped = FALSE]
        short == [st1 EXCEPT !.ret = Panic("unwrap")] IN
    IF st.escaped
      THEN IF st.endianness_override = None /\ character \in {"<", ">"}
             THEN [st EXCEPT !.endianness_override = Ok(character)]
           ELSE IF character = "?"
             THEN [st1 EXCEPT !.input_stack = Drop(input, 1)]
           ELSE IF IsNumberDirective(character)
             THEN LET n == FORMAT_TYPE_LEN_DICT[character] IN
                  IF ~HasBytes(input, n) THEN short
                  ELSE LET b == Take(input, n)
                           v == CASE character = "b" -> Ok(b[1])
                                  [] character = "w" -> Ok(FromBE16(b))
                                  [] character = "d" -> Ok(FromBE32(b))
                                  [] character = "q" -> FromBE64(b) IN
                       [st1 EXCEPT !.result = Append(@, IF IsOk(v) THEN Number(v.v) ELSE v),
                                   !.input_stack = Drop(input, n),
                                   !.endianness_override = None]
           ELSE IF character \in {"x", "s", "z"}
             THEN LET ln == IF character = "z" THEN 1 ELSE 2 IN
                  IF ~HasBytes(input, ln) THEN short
                  ELSE LET count == IF character = "z" THEN input[1]
                                    ELSE input[1] * 256 + input[2] IN
                       IF ~HasBytes(Drop(input, ln), count) THEN short
                       ELSE [st1 EXCEPT
                               !.result = Append(@, Array(Take(Drop(input, ln), count))),
                               !.input_stack = Drop(input, ln + count)]
           ELSE IF character \in {"*", "#"}
             THEN [st1 EXCEPT !.result = Append(@, Array(input)), !.input_stack = <<>>]
           ELSE IF character = "B"
             THEN IF ~HasBytes(input, 1) THEN short
                  ELSE [st1 EXCEPT !.result = Append(@, Number(bcd_to_int(input[1]).v)),
                                   !.input_stack = Drop(input, 1)]
           ELSE IF character = "W"
             THEN IF ~HasBytes(input, 2) THEN short
                  ELSE [st1 EXCEPT
                          !.result = Append(@, Number(bcd_to_int(input[1] * 256 + input[2]).v)),
                          !.input_stack = Drop(input, 2)]
           ELSE [st1 EXCEPT !.ret = Err("Unrecognized format char")]
    ELSE IF character = "%"
      THEN IF st.half # None THEN [st EXCEPT !.ret = Panic("assert_eq")]
                             ELSE [st EXCEPT !.escaped = TRUE]
    ELSE IF character = " " THEN st
    ELSE IF st.half = None THEN [st EXCEPT !.half = Ok(character)]
    ELSE IF ~HasBytes(input, 1) THEN [st EXCEPT !.ret = Panic("unwrap")]
    ELSE IF ~IsHexPair(st.half.v, character) THEN [st EXCEPT !.ret = Panic("unwrap")]
    ELSE IF HexVal(st.half.v) * 16 + HexVal(character) # input[1]
      THEN [st EXCEPT !.ret =
              Err([why |-> "Format and input mismatch",
                   i |-> st.initial_length - (Len(input) - 1) - 1,
                   expected |-> HexVal(st.half.v) * 16 + HexVal(character),
                   got |-> input[1]])]
    ELSE [st EXCEPT !.input_stack = Drop(input, 1), !.half = None]

RECURSIVE ScanChars(_, _, _)
ScanChars(st, format, i) ==
    IF i > Len(format)
      THEN IF st.input_stack # <<>> THEN Panic("assert_eq") ELSE Ok(st.result)
    ELSE LET n == ScanChar(st, format[i]) IN
         IF n.ret # None THEN n.ret ELSE ScanChars(n, format, i + 1)

\* scan_query(query_result, format): the first byte is dropped unread
scan_query(query_result, format) ==
    ScanChars([result |-> <<>>, half |-> None,
               initial_length |-> Len(query_result),
               input_stack |-> Drop(query_result, 1),
               endianness_override |-> None, escaped |-> FALSE, ret |-> None],
              format, 1)

\* templates, as sequences of characters:
\* "1806 %b", "%w", "%<w", "%>w", "%d", "%<d", "%q", "18 %x 00", "%z ff",
\* "%B %W", "00 %b %w"
\* the template of track_change: "1850 ff10 00000000 %w"
TrackChangeTemplate ==
    <<"1", "8", "5", "0", " ", "f", "f", "1", "0", " ",
      "0", "0", "0", "0", "0", "0", "0", "0", " ", "%", "w">>

\* NetMDInterface::track_change(direction), called by next_track,
\* previous_track and restart_track; lp holds the query that was sent
track_change ==
    /\ InterfaceOnly
    /\ icall.op \in TrackChangeOps
    /\ ipc = "open"
    /\ LET direction == DirectionOf(icall.op)
           query == format_query(TrackChangeTemplate, <<Number(direction)>>) IN
       IF ~IsOk(query)
         THEN Return(query) /\ UNCHANGED <<cmds, lp>>
         ELSE /\ lp' = [direction |-> direction, query |-> query.v]
              /\ \E o \in QueryOutcomes :
                   /\ Sent("data", "track_change", o)
                   /\ IF o # "ok"
                        THEN Return(Failure(o))
                        ELSE \E k \in ScanKinds :
                               IF k = "match" THEN Return(Ok("track_change"))
                                              ELSE Return(ScanFailure("try"))
    /\ UNCHANGED <<icall, current_attempt, sleeps, reads, replies>>

Templates ==
    {<<"1", "8", "0", "6", " ", "%", "b">>,
     <<"%", "w">>,
     <<"%", "<", "w">>,
     <<"%", ">", "w">>,
     <<"%", "d">>,
     <<"%", "<", "d">>,
     <<"%", "q">>,
     <<"1", "8", " ", "%", "x", " ", "0", "0">>,
     <<"%", "z", " ", "f", "f">>,
     <<"%", "B", " ", "%", "W">>,
     <<"0", "0", " ", "%", "b", " ", "%", "w">>,
     <<"0", "0", " ", "%", "*">>}
\* a template whose literal is not hexadecimal: "180g %b"
MalformedTemplates == {<<"1", "8", "0", "g", " ", "%", "b">>}

RECURSIVE Directives(_, _)
\* the directives of a template from position i on, in order
Directives(format, i) ==
    IF i > Len(format) THEN <<>>
    ELSE IF format[i] # "%" THEN Directives(format, i + 1)
    ELSE IF format[i + 1] \in {"<", ">"}
      THEN <<format[i + 2]>> \o Directives(format, i + 3)
      ELSE <<format[i + 1]>> \o Directives(format, i + 2)

\* values a caller passes for a directive
DirectiveValues(c) ==
    CASE c = "b" -> {Number(0), Number(18), Number(255)}
      [] c = "w" -> {Number(4660), Number(32767), Number(32768), Number(65535)}
      [] c = "d" -> {Number(305419896), Number(2147483647)}
      [] c = "q" -> {Number(305419896)}
      [] c = "B" -> {Number(0), Number(42), Number(99)}
      [] c = "W" -> {Number(1234), Number(9999)}
      [] c \in {"x", "z"} -> {Array(<<>>), Array(<<1, 2>>)}
      [] c = "*" -> {Array(<<>>), Array(<<7>>)}

RECURSIVE ArgVectors(_)
ArgVectors(directives) ==
    IF directives = <<>> THEN {<<>>}
    ELSE {<<v>> \o rest : v \in DirectiveValues(Head(directives)),
                          rest \in ArgVectors(Tail(directives))}

\* the status byte a reply starts with
StatusByteSamples == {0, 9}
Reverse(b) == [i \in 1..Len(b) |-> b[Len(b) + 1 - i]]

\* argument vectors a caller can get wrong: the last argument left out, or
\* one argument of the other QueryValue variant
MissingArgument(args) ==
    IF args = <<>> THEN {} ELSE {SubSeq(args, 1, Len(args) - 1)}
OtherVariant(v) == IF v.t = "Number" THEN Array(<<1, 2>>) ELSE Number(18)
MismatchedArgument(args) ==
    {[args EXCEPT ![i] = OtherVariant(@)] : i \in 1..Len(args)}

\* what a call of format_query is given: kind tells how the input was made
FormatInputs ==
    UNION {{[kind |-> "well_formed", format |-> f, args |-> a] :
               a \in ArgVectors(Directives(f, 1))} : f \in Templates}
    \cup {[kind |-> "bad_literal", format |-> f, args |-> <<Number(18)>>] : f \in MalformedTemplates}
    \cup UNION {UNION {{[kind |-> "missing_argument", format |-> f, args |-> b] :
                           b \in MissingArgument(a)}
                       \cup {[kind |-> "type_mismatch", format |-> f, args |-> b] :
                           b \in MismatchedArgument(a)} :
                     a \in ArgVectors(Directives(f, 1))} : f \in Templates}

\* format_query(format, args)
FormatQueryCall ==
    /\ QueryOnly
    /\ qfmt = None
    /\ \E in \in FormatInputs :
         qfmt' = [kind |-> in.kind, format |-> in.format, args |-> in.args,
                  res |-> format_query(in.format, in.args)]
    /\ UNCHANGED <<qscan, qbcd>>

\* replies a device can answer with, made from the bytes format_query gave
\* for the same template: those bytes, the same bytes in the opposite
\* order, with one byte appended, with the last byte missing, and with the
\* first literal byte changed
Replies(format, bytes) ==
    {[kind |-> "formatted", bytes |-> bytes],
     [kind |-> "reversed", bytes |-> Reverse(bytes)],
     [kind |-> "trailing", bytes |-> Append(bytes, 0)]}
    \cup (IF bytes = <<>> THEN {}
          ELSE {[kind |-> "short", bytes |-> SubSeq(bytes, 1, Len(bytes) - 1)]})
    \cup (IF format[1] = "%" THEN {}
          ELSE {[kind |-> "literal_mismatch",
                 bytes |-> [bytes EXCEPT ![1] = (@ + 1) % 256]]})

\* scan_query(query_result, format) on a status byte followed by a reply
ScanQueryCall ==
    /\ QueryOnly
    /\ qfmt # None /\ IsOk(qfmt.res)
    /\ qscan = None
    /\ \E sb \in StatusByteSamples, reply \in Replies(qfmt.format, qfmt.res.v) :
         qscan' = [kind |-> reply.kind, query_result |-> <<sb>> \o reply.bytes,
                   format |-> qfmt.format,
                   res |-> scan_query(<<sb>> \o reply.bytes, qfmt.format)]
    /\ UNCHANGED <<qfmt, qbcd>>

\* values handed to int_to_bcd: every decimal digit in every one of the 8
\* places, and some values of several digits
BcdDigitPlaces == 8
BcdInputs ==
    {a * Pow(10, k) : a \in 0..9, k \in 0..(BcdDigitPlaces - 1)}
    \cup {42, 1234, 9999, 12345678, 79999999, 99999999}

\* bcd_to_int(int_to_bcd(x))
BcdCall ==
    /\ QueryOnly
    /\ qbcd = None
    /\ \E x \in BcdInputs :
         qbcd' = [x |-> x, bcd |-> int_to_bcd(x), back |-> bcd_to_int(int_to_bcd(x))]
    /\ UNCHANGED <<qfmt, qscan>>

(***************************************************************************)
(* Query codec claims                                                      *)
(***************************************************************************)
\* C19: for a template of hex literals and %b %w %d %q %x %z %B %W and
\* values within the unsigned range of their directives, scan_query of one
\* status byte followed by format_query(T, V), with T, returns exactly V, in
\* directive order.
C19_QueryRoundTrip ==
    (qscan # None /\ Drop(qscan.query_result, 1) = qfmt.res.v)
        => qscan.res = Ok(qfmt.args)

\* the one directive of a template that is nothing but a directive
SoleDirective(format) ==
    IF Len(format) = 2 /\ format[1] = "%" THEN [c |-> format[2], flipped |-> FALSE]
    ELSE IF Len(format) = 3 /\ format[1] = "%" /\ format[2] \in {"<", ">"}
      THEN [c |-> format[3], flipped |-> TRUE]
      ELSE None
\* the bytes of v, n of them, most significant first
RECURSIVE BigEndian(_, _)
BigEndian(v, n) == IF n = 0 THEN <<>> ELSE BigEndian(v \div 256, n - 1) \o <<v % 256>>
RECURSIVE Unsigned(_)
Unsigned(b) == IF b = <<>> THEN 0 ELSE Unsigned(SubSeq(b, 1, Len(b) - 1)) * 256 + b[Len(b)]

\* C20: without a prefix %w, %d and %q are written by format_query and read
\* by scan_query most significant byte first; with the prefix %< (or %>) the
\* byte order of that directive is flipped, in format_query and in
\* scan_query alike.
C20_Endianness ==
    (qfmt # None /\ qfmt.kind = "well_formed" /\ SoleDirective(qfmt.format) # None
       /\ SoleDirective(qfmt.format).c \in {"w", "d", "q"}) =>
      LET sole == SoleDirective(qfmt.format)
          n == FORMAT_TYPE_LEN_DICT[sole.c]
          v == qfmt.args[1].n
          wire == IF sole.flipped THEN Reverse(BigEndian(v, n)) ELSE BigEndian(v, n) IN
      /\ qfmt.res = Ok(wire)
      /\ (qscan # None /\ IsOk(qscan.res) /\ Len(qscan.res.v) = 1
            /\ qscan.res.v[1].t = "Number" /\ n < 8) =>
           LET read == Drop(qscan.query_result, 1)
               msb_first == IF sole.flipped THEN Reverse(read) ELSE read IN
           IF n = 2 THEN (qscan.res.v[1].n - Unsigned(msb_first)) % 65536 = 0
                    ELSE BytesBE32(qscan.res.v[1].n) = msb_first

\* whether the template ends in %* or %#, which take whatever is left
EndsInRest(format) ==
    Len(format) >= 2 /\ format[Len(format) - 1] = "%" /\ format[Len(format)] \in {"*", "#"}

\* C21: scan_query on a malformed reply returns an error value and does not
\* abort: bytes left over after the template (which does not end in %* or
\* %#) give a QueryError, a reply shorter than the template needs gives a
\* QueryError, and a literal that differs from the reply gives a QueryError
\* naming the offset, the expected and the actual byte.
C21_MalformedReplyIsError ==
    qscan # None =>
      /\ (qscan.kind = "trailing" /\ ~EndsInRest(qscan.format)) => qscan.res.t = "Err"
      /\ (qscan.kind = "short" /\ ~EndsInRest(qscan.format)) => qscan.res.t = "Err"
      /\ qscan.kind = "literal_mismatch" =>
            qscan.res = Err([why |-> "Format and input mismatch", i |-> 1,
                             expected |-> qfmt.res.v[1],
                             got |-> qscan.query_result[2]])

\* C22: format_query returns a QueryError, and no message, when a literal is
\* not hexadecimal, when the template has more directives than arguments,
\* and when an argument is not of the type of its directive.
C22_FormatErrors ==
    (qfmt # None /\ qfmt.kind \in {"bad_literal", "missing_argument", "type_mismatch"})
        => qfmt.res.t = "Err"

\* C23: for every x in 0..99_999_999, int_to_bcd(x) and
\* bcd_to_int(int_to_bcd(x)) terminate without arithmetic overflow and
\* bcd_to_int(int_to_bcd(x)) = x.
C23_BcdRoundTrip ==
    qbcd # None => qbcd.back = Ok(qbcd.x)

(***************************************************************************)
(* Disc titles and groups: netmd/interface.rs, netmd/commands.rs           *)
(*                                                                         *)
(* A string is a sequence of characters.  A half-width character is a      *)
(* string of one ASCII character; the full-width character of c is written *)
(* "F" followed by c ("F0" for the wide zero, "F;" for the wide semicolon, *)
(* "F/" for the wide slash).                                               *)
(***************************************************************************)
\* str::find(pat) from position `from` on: the index of the first match, 0
\* when there is none
RECURSIVE IndexOf(_, _, _)
IndexOf(s, pat, from) ==
    IF from + Len(pat) - 1 > Len(s) THEN 0
    ELSE IF SubSeq(s, from, from + Len(pat) - 1) = pat THEN from
    ELSE IndexOf(s, pat, from + 1)
Contains(s, pat) == IndexOf(s, pat, 1) # 0
StartsWith(s, pat) == Len(s) >= Len(pat) /\ SubSeq(s, 1, Len(pat)) = pat
EndsWith(s, pat) == Len(s) >= Len(pat) /\ SubSeq(s, Len(s) - Len(pat) + 1, Len(s)) = pat

RECURSIVE Split(_, _)
\* str::split(pat), collected
Split(s, pat) ==
    LET i == IndexOf(s, pat, 1) IN
    IF i = 0 THEN <<s>>
    ELSE <<SubSeq(s, 1, i - 1)>> \o Split(SubSeq(s, i + Len(pat), Len(s)), pat)

\* str::split_once(c): None, or the parts before and after the first c
SplitOnce(s, c) ==
    LET i == IndexOf(s, <<c>>, 1) IN
    IF i = 0 THEN None
    ELSE Ok(<<SubSeq(s, 1, i - 1), SubSeq(s, i + 1, Len(s))>>)

DecimalDigits == {"0", "1", "2", "3", "4", "5", "6", "7", "8", "9"}
U16Max == 65535
RECURSIVE ParseDigits(_, _)
\* the value of a string of digits read after `acc`, or -1 beyond u16
ParseDigits(s, acc) ==
    IF s = <<>> THEN acc
    ELSE IF acc * 10 + HexVal(Head(s)) > U16Max THEN -1
    ELSE ParseDigits(Tail(s), acc * 10 + HexVal(Head(s)))
\* str::parse::<u16>(): digits, after an optional "+"
ParseU16(s) ==
    LET digits == IF s # <<>> /\ Head(s) = "+" THEN Tail(s) ELSE s IN
    IF digits = <<>> \/ \E i \in 1..Len(digits) : digits[i] \notin DecimalDigits
      THEN Err("ParseIntError")
    ELSE IF ParseDigits(digits, 0) < 0 THEN Err("ParseIntError")
    ELSE Ok(ParseDigits(digits, 0))

RECURSIVE FormatDecimal(_)
\* format!("{}", n) for n >= 0
FormatDecimal(n) ==
    LET digit == <<"0", "1", "2", "3", "4", "5", "6", "7", "8", "9">>[(n % 10) + 1] IN
    IF n < 10 THEN <<digit>> ELSE FormatDecimal(n \div 10) \o <<digit>>

\* the full-width character of a half-width one
Wide(c) == "F" \o c
WideString(s) == [i \in 1..Len(s) |-> Wide(s[i])]
\* HW_TO_FW_RANGE_MAP: the characters of a range and of the delimiters
RangeChars == DecimalDigits \cup {"-", "/", ";"}
\* utils::half_width_to_full_width_range: `.get(&char).unwrap()`
half_width_to_full_width_range(range) ==
    IF \E i \in 1..Len(range) : range[i] \notin RangeChars
      THEN Panic("unwrap")
      ELSE Ok(WideString(range))

\* a group of the result of track_group_list
GroupEntry(title, full_width_title, tracks) ==
    [title |-> title, full_width_title |-> full_width_title, tracks |-> tracks]

\* Iterator::find on what is left of full_width_group_list: the entries up
\* to and with the first one found are consumed, all of them when none is
RECURSIVE FindFullWidth(_, _)
FindFullWidth(rest, full_width_range) ==
    IF rest = <<>> THEN [found |-> None, rest |-> <<>>]
    ELSE IF StartsWith(Head(rest), full_width_range)
      THEN [found |-> Ok(Head(rest)), rest |-> Tail(rest)]
      ELSE FindFullWidth(Tail(rest), full_width_range)

\* the tracks track_min - 1 .. track_max - 1, in order
RECURSIVE TrackRange(_, _)
TrackRange(from, to) ==
    IF from >= to THEN <<>> ELSE <<from>> \o TrackRange(from + 1, to)
SeqToSet(q) == {q[i] : i \in 1..Len(q)}

\* one pass of `for (i, group) in group_list.enumerate()`; st holds
\* track_dict (its keys), result, full_width_group_list and, once the call
\* has ended, ret
GroupPass(st, group, raw_title, n_tracks) ==
    LET split == SplitOnce(group, ";")
        track_range == split.v[1]
        group_name == split.v[2]
        full_width_range == half_width_to_full_width_range(track_range)
        find == FindFullWidth(st.full_width_group_list, full_width_range.v)
        no_wide_semicolon == find.found # None /\ SplitOnce(find.found.v, Wide(";")) = None
        full_width_group_name ==
            IF find.found = None THEN <<>> ELSE SplitOnce(find.found.v, Wide(";")).v[2]
        track_minmax == IF Contains(track_range, <<"-">>) THEN Split(track_range, <<"-">>)
                                                          ELSE <<track_range>>
        min_parsed == ParseU16(track_minmax[1])
        max_parsed == ParseU16(track_minmax[2])
        track_min == min_parsed.v
        track_max == Min(max_parsed.v, n_tracks)
        first == IF track_min = 0 THEN U16Max ELSE track_min - 1
        track_list == TrackRange(first, track_max)
        hit == {t \in SeqToSet(track_list) : t \in st.track_dict}
        \* the first track of the range that is already in track_dict
        dup == CHOOSE t \in hit : \A u \in hit : t <= u IN
    IF group = <<>> THEN st
    ELSE IF StartsWith(group, <<"0", ";">>) \/ split = None \/ ~Contains(raw_title, <<"/", "/">>)
      THEN st
    ELSE IF track_range = <<>> THEN st
    ELSE IF ~IsOk(full_width_range) THEN [st EXCEPT !.ret = Panic("unwrap")]
    ELSE IF no_wide_semicolon THEN [st EXCEPT !.ret = Panic("unwrap")]
    ELSE IF ~IsOk(min_parsed) THEN [st EXCEPT !.ret = Panic("unwrap")]
    ELSE IF Len(track_minmax) < 2 THEN [st EXCEPT !.ret = Panic("index out of bounds")]
    ELSE IF ~IsOk(max_parsed) THEN [st EXCEPT !.ret = Panic("unwrap")]
    ELSE IF ~(track_min <= track_max) THEN [st EXCEPT !.ret = Panic("assert")]
    ELSE IF track_min = 0 /\ overflow_checks THEN [st EXCEPT !.ret = Panic("overflow")]
    ELSE IF hit # {} THEN [st EXCEPT !.ret = Err([e |-> "GroupError", track |-> dup])]
    ELSE [st EXCEPT
            !.full_width_group_list = find.rest,
            !.track_dict = @ \cup SeqToSet(track_list),
            !.result = Append(@, GroupEntry(Ok(group_name), Ok(full_width_group_name),
                                            track_list))]

RECURSIVE GroupPasses(_, _, _, _, _)
GroupPasses(st, group_list, i, raw_title, n_tracks) ==
    IF i > Len(group_list) \/ st.ret # None THEN st
    ELSE GroupPasses(GroupPass(st, group_list[i], raw_title, n_tracks),
                     group_list, i + 1, raw_title, n_tracks)

\* all tracks from i on, whether in a group or not
RemainingTracks_All(i, n_tracks, track_dict) == TrackRange(i, n_tracks)

\* the tracks of 0..n_tracks-1 that are in no group, in order
RECURSIVE RemainingTracks(_, _, _)
RemainingTracks(i, n_tracks, track_dict) ==
    IF i >= n_tracks THEN <<>>
    ELSE (IF i \in track_dict THEN <<>> ELSE <<i>>)
         \o RemainingTracks(i + 1, n_tracks, track_dict)

\* NetMDInterface::track_group_list, given what raw_disc_title(false),
\* track_count() (n_tracks) and raw_disc_title(true) returned
track_group_list(raw_title, n_tracks, raw_full_title) ==
    LET st == GroupPasses([track_dict |-> {}, result |-> <<>>,
                           full_width_group_list |-> Split(raw_full_title, <<Wide("/"), Wide("/")>>),
                           ret |-> None],
                          Split(raw_title, <<"/", "/">>), 1, raw_title, n_tracks) IN
    IF st.ret # None THEN st.ret
    ELSE Ok(<<GroupEntry(None, None, RemainingTracks(0, n_tracks, st.track_dict))>>
            \o st.result)

\* the calls on disc titles are looked at one at a time: none was made yet
TitlesIdle == groups_call = None /\ compile_call = None /\ rename_call = None

\* NetMDInterface::disc_title(wchar), given what raw_disc_title(wchar) returned
disc_title(raw, wchar) ==
    LET delim == IF wchar THEN <<Wide("/"), Wide("/")>> ELSE <<"/", "/">>
        title_marker == IF wchar THEN <<Wide("0"), Wide(";")>> ELSE <<"0", ";">>
        first_entry == Split(raw, delim)[1] IN
    IF EndsWith(raw, delim)
      THEN IF StartsWith(first_entry, title_marker)
             THEN SubSeq(first_entry, Len(title_marker) + 1, Len(first_entry))
             ELSE <<>>
      ELSE raw

\* str::len(): the bytes of the UTF-8 encoding, 3 for a full-width character
RECURSIVE ByteLen(_)
ByteLen(s) ==
    IF s = <<>> THEN 0 ELSE (IF Len(Head(s)) = 2 THEN 3 ELSE 1) + ByteLen(Tail(s))
\* utils::half_width_title_length, for titles without the characters of
\* MULTI_BYTE_CHARS
half_width_title_length(title) == ByteLen(title)
\* commands::chars_to_cells: f32::ceil(len as f32 / 7.0)
CellChars == 7
chars_to_cells(len) == (len + CellChars - 1) \div CellChars

\* a Track, its two titles known by their lengths in bytes, and a Group
Track(index, title_len, full_width_len, encoding) ==
    [index |-> index, title_len |-> title_len, full_width_len |-> full_width_len,
     encoding |-> encoding]
Group(title, full_width_title, tracks) ==
    [title |-> title, full_width_title |-> full_width_title, tracks |-> tracks]

\* Track::cells_for_title: (half-width, full-width)
cells_for_title(track) ==
    LET encoding_name_correction == IF track.encoding = "SP" THEN 0 ELSE 1 IN
    [half |-> IF chars_to_cells(track.title_len) > encoding_name_correction
                THEN chars_to_cells(track.title_len) ELSE encoding_name_correction,
     full |-> IF chars_to_cells(track.full_width_len * 2) > encoding_name_correction
                THEN chars_to_cells(track.full_width_len * 2) ELSE encoding_name_correction]

RECURSIVE GroupTracks(_)
\* Disc::tracks(), before sorting
GroupTracks(groups) ==
    IF groups = <<>> THEN <<>> ELSE Head(groups).tracks \o GroupTracks(Tail(groups))
RECURSIVE SumCells(_, _)
SumCells(tracks, side) ==
    IF tracks = <<>> THEN 0
    ELSE (IF side = "half" THEN cells_for_title(Head(tracks)).half
                          ELSE cells_for_title(Head(tracks)).full)
         + SumCells(Tail(tracks), side)

CELL_LIMIT == 255
\* `usize::max(CELL_LIMIT - used, 0) * 7`: the subtraction is on usize; it
\* panics below 0 with overflow checks and wraps without, and the callers
\* read the wrapped product `as isize`, which is the negative number
CellsLeft(used) ==
    IF used > CELL_LIMIT /\ overflow_checks THEN Panic("overflow")
    ELSE Ok((CELL_LIMIT - used) * CellChars)

\* Disc::remaining_characters_for_titles(true, false): (full-width, half-width)
remaining_characters_for_titles(disc) ==
    LET fw_title == <<"0", ";", "/", "/">>
        hw_title == <<"0", ";", "/", "/">>
        used_full_width_cells == chars_to_cells(ByteLen(fw_title) * 2)
                                   + SumCells(GroupTracks(disc.groups), "full")
        used_half_width_cells == chars_to_cells(half_width_title_length(hw_title))
                                   + SumCells(GroupTracks(disc.groups), "half") IN
    \* (the tuple's first element is evaluated first)
    IF ~IsOk(CellsLeft(used_full_width_cells)) THEN CellsLeft(used_full_width_cells)
    ELSE IF ~IsOk(CellsLeft(used_half_width_cells)) THEN CellsLeft(used_half_width_cells)
    ELSE Ok([full |-> CellsLeft(used_full_width_cells).v,
             half |-> CellsLeft(used_half_width_cells).v])

\* whether any group or track has a non-empty full-width title
use_full_width(disc) ==
    \/ \E i \in 1..Len(disc.groups) :
         disc.groups[i].full_width_title # None /\ disc.groups[i].full_width_title.v # <<>>
    \/ \E i \in 1..Len(GroupTracks(disc.groups)) :
         GroupTracks(disc.groups)[i].full_width_len # 0

\* the smallest index of the tracks of a group
MinIndex(tracks) ==
    CHOOSE m \in {tracks[i].index : i \in 1..Len(tracks)} :
        \A i \in 1..Len(tracks) : m <= tracks[i].index
\* `<lo>[-<hi>]` as compile_disc_titles writes it
GroupRange(tracks) ==
    FormatDecimal(MinIndex(tracks) + 1)
    \o (IF Len(tracks) # 1 THEN <<"-">> \o FormatDecimal(MinIndex(tracks) + Len(tracks))
                           ELSE <<>>)

\* one pass of `for group in &self.groups`; st holds new_raw_title and
\* new_raw_full_width_title
CompileGroup(st, group, available, full) ==
    LET range == GroupRange(group.tracks)
        new_raw_title_after_group ==
            st.new_raw_title \o range \o <<";">> \o group.title.v \o <<"/", "/">>
        new_raw_full_width_title_after_group ==
            st.new_raw_full_width_title \o half_width_to_full_width_range(range).v
              \o <<Wide(";")>>
              \o (IF group.full_width_title = None THEN <<>> ELSE group.full_width_title.v)
              \o <<Wide("/"), Wide("/")>>
        half_width_titles_length_in_toc ==
            chars_to_cells(half_width_title_length(new_raw_title_after_group))
        full_width_titles_length_in_toc ==
            chars_to_cells(ByteLen(new_raw_full_width_title_after_group) * 2) * CellChars IN
    IF group.title = None \/ group.tracks = <<>> THEN st
    ELSE [new_raw_title |->
            IF available.half - half_width_titles_length_in_toc >= 0
              THEN new_raw_title_after_group ELSE st.new_raw_title,
          new_raw_full_width_title |->
            IF full /\ available.full - full_width_titles_length_in_toc >= 0
              THEN new_raw_full_width_title_after_group ELSE st.new_raw_full_width_title]

RECURSIVE CompileGroups(_, _, _, _)
CompileGroups(st, groups, available, full) ==
    IF groups = <<>> THEN st
    ELSE CompileGroups(CompileGroup(st, Head(groups), available, full),
                       Tail(groups), available, full)

\* Disc::compile_disc_titles: (half-width, full-width)
compile_disc_titles(disc) ==
    LET remaining == remaining_characters_for_titles(disc)
        available == remaining.v
        full == use_full_width(disc)
        st == CompileGroups(
                [new_raw_title |->
                    IF disc.title # <<>> THEN <<"0", ";">> \o disc.title \o <<"/", "/">>
                                         ELSE <<>>,
                 new_raw_full_width_title |->
                    IF full THEN <<Wide("0"), Wide(";")>> \o disc.full_width_title
                                   \o <<Wide("/"), Wide("/")>>
                            ELSE <<>>],
                disc.groups, available, full)
        half_width_titles_length_in_toc ==
            chars_to_cells(half_width_title_length(st.new_raw_title)) * CellChars
        full_width_titles_length_in_toc ==
            chars_to_cells(ByteLen(st.new_raw_full_width_title) * 2) IN
    IF ~IsOk(remaining) THEN remaining
    ELSE Ok(<<IF available.half - half_width_titles_length_in_toc < 0
                THEN <<>> ELSE st.new_raw_title,
              IF full /\ ~(available.full - full_width_titles_length_in_toc < 0)
                THEN st.new_raw_full_width_title ELSE <<>>>>)

\* entries a raw disc title is made of: `range;title`, with what the range
\* stands for (lo and hi are 0 where it stands for no tracks)
Entry(kind, range, title, lo, hi) ==
    [kind |-> kind, text |-> range \o <<";">> \o title, title |-> title,
     lo |-> lo, hi |-> hi]
TitleEntries ==
    {Entry("disc", <<"0">>, <<"D">>, 0, 0),
     Entry("range", <<"1", "-", "2">>, <<"A">>, 1, 2),
     Entry("range", <<"2", "-", "3">>, <<"B">>, 2, 3),
     Entry("range", <<"4", "-", "9">>, <<"E">>, 4, 9),
     Entry("range", <<"4", "-", "5">>, <<"G">>, 4, 5),
     Entry("single", <<"3">>, <<"C">>, 3, 3),
     Entry("zero_low", <<"0", "-", "1">>, <<"Z">>, 0, 1),
     Entry("non_numeric", <<"x", "-", "2">>, <<"Q">>, 0, 0),
     Entry("low_above_high", <<"3", "-", "2">>, <<"W">>, 3, 2)}
\* how many entries a raw title has at most
MaxTitleEntries == 3
TrackCounts == {3, 5}

RECURSIVE EntryLists(_)
EntryLists(n) ==
    IF n = 0 THEN {<<>>}
    ELSE EntryLists(n - 1) \cup {Append(l, e) : l \in EntryLists(n - 1), e \in TitleEntries}

RECURSIVE JoinEntries(_)
\* the raw title of a list of entries: each followed by "//"
JoinEntries(entries) ==
    IF entries = <<>> THEN <<>>
    ELSE Head(entries).text \o <<"/", "/">> \o JoinEntries(Tail(entries))

\* raw titles without "//": a plain disc title, and one that looks like a range
PlainTitles == {<<"D", "i", "s", "c">>, <<"1", "-", "2", ";", "A">>}

\* what the device holds when track_group_list is called
DiscStates ==
    {[entries |-> l, raw_title |-> JoinEntries(l), track_count |-> n,
      raw_full_title |-> IF wide THEN WideString(JoinEntries(l)) ELSE <<>>] :
        l \in EntryLists(MaxTitleEntries), n \in TrackCounts, wide \in BOOLEAN}
    \cup {[entries |-> <<>>, raw_title |-> t, track_count |-> n, raw_full_title |-> <<>>] :
            t \in PlainTitles, n \in TrackCounts}

\* how the tracks of a disc are titled: the lengths of the half-width and
\* the full-width title of track i, and its encoding
TrackProfiles == {"titled", "wide_first", "untitled_lp2"}
ProfileTrack(profile, i) ==
    CASE profile = "titled" -> Track(i, 5, 0, "SP")
      [] profile = "wide_first" -> Track(i, 5, IF i = 0 THEN 6 ELSE 0, "SP")
      [] profile = "untitled_lp2" -> Track(i, 0, 0, "LP2")

\* NetMDContext::list_content: the Disc of what disc_title, track_group_list
\* and track_title returned
list_content(d, profile, groups) ==
    [title |-> disc_title(d.raw_title, FALSE),
     full_width_title |-> disc_title(d.raw_full_title, TRUE),
     groups |-> [g \in 1..Len(groups) |->
                   Group(groups[g].title, groups[g].full_width_title,
                         [k \in 1..Len(groups[g].tracks) |->
                            ProfileTrack(profile, groups[g].tracks[k])])]]

\* list_content() and then compile_disc_titles() of the Disc it returned
ListContentCompileCall ==
    /\ TitlesOnly
    /\ TitlesIdle
    /\ \E d \in DiscStates, profile \in TrackProfiles :
         LET listed == track_group_list(d.raw_title, d.track_count, d.raw_full_title) IN
         compile_call' =
           [kind |-> "listed", entries |-> d.entries, raw_title |-> d.raw_title,
            track_count |-> d.track_count,
            disc |-> IF IsOk(listed) THEN list_content(d, profile, listed.v) ELSE None,
            res |-> IF IsOk(listed)
                      THEN compile_disc_titles(list_content(d, profile, listed.v))
                      ELSE listed]
    /\ UNCHANGED <<groups_call, rename_call>>

\* a title of n characters
LongTitle(n) == [i \in 1..n |-> "x"]
LongTitleLen == 50
LongWideTitleLen == 10
\* cells the titles of the one long-titled track take: none, nearly all of
\* the 255, all of them, and more
FillerCellsHalf == {0, 252, 253, 254, 255}
FillerCellsFull == {0, 243, 255}
\* Discs handed to compile_disc_titles: tracks 0 and 1 in group A, track 3
\* in group B, track 2 in no group and with titles of the length chosen
BuiltDiscs ==
    {[title |-> title, full_width_title |-> IF wide THEN <<Wide("D")>> ELSE <<>>,
      groups |->
        <<Group(None, None,
                <<Track(2, half * CellChars, (full * CellChars) \div 2, "SP")>>),
          Group(Ok(a), IF wide THEN Ok(LongTitle(LongWideTitleLen) \o <<Wide("A")>>) ELSE None,
                <<Track(0, 0, 0, "SP"), Track(1, 0, 0, "SP")>>),
          Group(Ok(<<"B">>), IF wide THEN Ok(<<Wide("B")>>) ELSE None,
                <<Track(3, 0, 0, "SP")>>)>>] :
        title \in {<<>>, <<"D">>}, a \in {<<"A">>, LongTitle(LongTitleLen)},
        half \in FillerCellsHalf, full \in FillerCellsFull, wide \in BOOLEAN}

\* compile_disc_titles() of a Disc (as rewrite_disc_groups calls it)
CompileDiscTitlesCall ==
    /\ TitlesOnly
    /\ TitlesIdle
    /\ \E disc \in BuiltDiscs :
         compile_call' = [kind |-> "built", entries |-> <<>>, raw_title |-> <<>>,
                          track_count |-> Len(GroupTracks(disc.groups)),
                          disc |-> disc, res |-> compile_disc_titles(disc)]
    /\ UNCHANGED <<groups_call, rename_call>>

\* half-width characters that have a full-width form in the model
Letters == {"A", "B", "C", "D", "E", "G", "N", "Q", "W", "Z", "e", "i", "s", "c", "w", "x"}
Narrows == DecimalDigits \cup Letters \cup {"-", "/", ";"}
\* utils::sanitize_half_width_title on these characters: wide2ascii turns a
\* full-width character into its ASCII one, ASCII is kept
sanitize_half_width_title(title) ==
    [i \in 1..Len(title) |->
        IF \E a \in Narrows : title[i] = Wide(a)
          THEN CHOOSE a \in Narrows : title[i] = Wide(a)
          ELSE title[i]]
\* utils::sanitize_full_width_title on these characters: MAPPINGS_JP turns
\* an ASCII character into its full-width one, full-width is kept
sanitize_full_width_title(title) ==
    [i \in 1..Len(title) |-> IF title[i] \in Narrows THEN Wide(title[i]) ELSE title[i]]

\* NetMDInterface::set_disc_title(title, wchar) on a disc whose raw title is
\* current_title: TitleError, or the string that is written
set_disc_title(current_title, title, wchar) ==
    IF current_title = title THEN Err("TitleError")
    ELSE Ok([wchar |-> wchar,
             title |-> IF wchar THEN sanitize_full_width_title(title)
                                ELSE sanitize_half_width_title(title)])

\* the replacement alone, the rest of the old raw title lost
ReplaceLeading_DropsRest(raw, marker, delim, replacement) == replacement

\* Regex `^0;.*?//` (or its wide form) .replace_all(raw, replacement): the
\* shortest match at the start, up to the first delimiter after the marker
ReplaceLeading(raw, marker, delim, replacement) ==
    LET i == IndexOf(raw, delim, Len(marker) + 1) IN
    IF ~StartsWith(raw, marker) \/ i = 0 THEN raw
    ELSE replacement \o SubSeq(raw, i + Len(delim), Len(raw))

\* new_name_with_groups / new_fw_name_with_groups
NameWithGroups(old_raw, new, wchar) ==
    LET delim == IF wchar THEN <<Wide("/"), Wide("/")>> ELSE <<"/", "/">>
        marker == IF wchar THEN <<Wide("0"), Wide(";")>> ELSE <<"0", ";">> IN
    IF Contains(old_raw, delim)
      THEN IF StartsWith(old_raw, marker)
             THEN ReplaceLeading(old_raw, marker, delim,
                                 IF new # <<>> THEN marker \o new \o delim ELSE <<>>)
             ELSE marker \o new \o delim \o old_raw
      ELSE new

\* NetMDContext::rename_disc(new_name, new_fw_name): the writes made, in
\* order, and what is returned
rename_disc(old_raw_name, old_raw_fw_name, name, fw_name) ==
    LET new_name == sanitize_half_width_title(name)
        new_fw_name == IF fw_name = None THEN None ELSE Ok(sanitize_full_width_title(fw_name.v))
        old_name == disc_title(old_raw_name, FALSE)
        old_fw_name == disc_title(old_raw_fw_name, TRUE)
        fw_write == IF new_fw_name # None /\ new_fw_name.v # old_fw_name
                      THEN set_disc_title(old_raw_fw_name,
                                          NameWithGroups(old_raw_fw_name, new_fw_name.v, TRUE), TRUE)
                      ELSE None
        fw_writes == IF IsOk(fw_write) THEN <<fw_write.v>> ELSE <<>>
        hw_write == set_disc_title(old_raw_name,
                                   NameWithGroups(old_raw_name, new_name, FALSE), FALSE) IN
    IF fw_write # None /\ ~IsOk(fw_write) THEN [writes |-> <<>>, ret |-> fw_write]
    ELSE IF new_name = old_name THEN [writes |-> fw_writes, ret |-> Ok(<<>>)]
    ELSE IF ~IsOk(hw_write) THEN [writes |-> fw_writes, ret |-> hw_write]
    ELSE [writes |-> Append(fw_writes, hw_write.v), ret |-> Ok(<<>>)]

\* how many entries the raw title of a disc that is renamed has at most
MaxRenameEntries == 2
\* names rename_disc is called with
NewNames == {<<>>, <<"D">>, <<"N", "e", "w">>, <<Wide("N")>>}
NewFullWidthNames == {None, Ok(<<>>), Ok(<<"N">>), Ok(<<Wide("D")>>)}
\* the raw titles of the disc that is renamed
OldRawTitles == {JoinEntries(l) : l \in EntryLists(MaxRenameEntries)} \cup PlainTitles

\* rename_disc(new_name, new_fw_name)
RenameDiscCall ==
    /\ TitlesOnly
    /\ TitlesIdle
    /\ \E old \in OldRawTitles, wide \in BOOLEAN, name \in NewNames,
          fw_name \in NewFullWidthNames :
         LET old_fw == IF wide THEN WideString(old) ELSE <<>>
             renamed == rename_disc(old, old_fw, name, fw_name) IN
         rename_call' = [old_raw_name |-> old, old_raw_fw_name |-> old_fw,
                         new_name |-> name, new_fw_name |-> fw_name,
                         writes |-> renamed.writes, ret |-> renamed.ret]
    /\ UNCHANGED <<groups_call, compile_call>>

\* track_group_list()
TrackGroupListCall ==
    /\ TitlesOnly
    /\ TitlesIdle
    /\ \E d \in DiscStates :
         groups_call' = [entries |-> d.entries, raw_title |-> d.raw_title,
                         track_count |-> d.track_count,
                         raw_full_title |-> d.raw_full_title,
                         res |-> track_group_list(d.raw_title, d.track_count,
                                                  d.raw_full_title)]
    /\ UNCHANGED <<compile_call, rename_call>>

(***************************************************************************)
(* Disc title claims                                                       *)
(***************************************************************************)
RECURSIVE CountIn(_, _)
\* how often t occurs in the sequence q
CountIn(q, t) ==
    IF q = <<>> THEN 0 ELSE (IF Head(q) = t THEN 1 ELSE 0) + CountIn(Tail(q), t)
RECURSIVE AllTracks(_)
\* the track lists of all groups, one after the other
AllTracks(groups) ==
    IF groups = <<>> THEN <<>> ELSE Head(groups).tracks \o AllTracks(Tail(groups))

\* C24: whenever track_group_list returns Ok, the first entry of the result
\* is the untitled group, every track of 0..track_count-1 is in exactly one
\* group's list and no other index is in any list; a raw title without
\* group entries gives the one group (None, None, [0..track_count)).
C24_GroupsPartitionTracks ==
    (groups_call # None /\ IsOk(groups_call.res)) =>
      LET groups == groups_call.res.v
          n == groups_call.track_count IN
      /\ Len(groups) >= 1
      /\ groups[1].title = None /\ groups[1].full_width_title = None
      /\ \A t \in 0..(n - 1) : CountIn(AllTracks(groups), t) = 1
      /\ SeqToSet(AllTracks(groups)) \subseteq 0..(n - 1)
      /\ (\A i \in 1..Len(groups_call.entries) : groups_call.entries[i].kind = "disc")
            => groups = <<GroupEntry(None, None, TrackRange(0, n))>>
C24_Witness ==
    /\ groups_call # None /\ IsOk(groups_call.res)
    /\ Len(groups_call.res.v) = 3
    /\ groups_call.res.v[1].tracks # <<>>

\* the tracks an entry stands for on a disc of n tracks
EntryTracks(e, n) == TrackRange(e.lo - 1, Min(e.hi, n))
\* entries that are a disc title, a range lo-hi or a single track n, the
\* ranges within the disc and disjoint
WellFormed(entries, n) ==
    /\ \A i \in 1..Len(entries) :
         /\ entries[i].kind \in {"disc", "range", "single"}
         /\ entries[i].kind # "disc" => entries[i].lo <= Min(entries[i].hi, n)
    /\ \A i, j \in 1..Len(entries) :
         (i < j /\ entries[i].kind # "disc" /\ entries[j].kind # "disc")
            => SeqToSet(EntryTracks(entries[i], n)) \cap SeqToSet(EntryTracks(entries[j], n)) = {}
RECURSIVE ExpectedGroups(_, _)
\* (title, tracks) of the groups the entries describe, in order
ExpectedGroups(entries, n) ==
    IF entries = <<>> THEN <<>>
    ELSE (IF Head(entries).kind = "disc" THEN <<>>
          ELSE <<[title |-> Ok(Head(entries).title), tracks |-> EntryTracks(Head(entries), n)]>>)
         \o ExpectedGroups(Tail(entries), n)
TitledGroups(groups) ==
    [i \in 1..(Len(groups) - 1) |->
        [title |-> groups[i + 1].title, tracks |-> groups[i + 1].tracks]]

\* C25: an entry `lo-hi;title//` gives a group titled `title` with exactly
\* the tracks lo-1 .. min(hi, track_count)-1 in ascending order, an entry
\* `n;title//` a group with exactly the track n-1, and the entry `0;disc//`
\* gives no group.
C25_GroupRangeParsing ==
    (groups_call # None /\ groups_call.raw_title \notin PlainTitles
       /\ WellFormed(groups_call.entries, groups_call.track_count)) =>
      /\ IsOk(groups_call.res)
      /\ TitledGroups(groups_call.res.v)
           = ExpectedGroups(groups_call.entries, groups_call.track_count)

\* a raw title that is inconsistent: two ranges share a track, a lower
\* bound is 0, above track_count or above the clipped upper bound, or a
\* range is not numeric
Inconsistent(entries, n) ==
    \/ \E i \in 1..Len(entries) :
         \/ entries[i].kind \in {"zero_low", "non_numeric", "low_above_high"}
         \/ entries[i].kind # "disc" /\ entries[i].lo > Min(entries[i].hi, n)
    \/ \E i, j \in 1..Len(entries) :
         /\ i < j
         /\ entries[i].kind \in {"range", "single"} /\ entries[j].kind \in {"range", "single"}
         /\ SeqToSet(EntryTracks(entries[i], n)) \cap SeqToSet(EntryTracks(entries[j], n)) # {}

\* C26: track_group_list returns an error value for every inconsistent raw
\* title and never aborts.
C26_InconsistentTitleIsError ==
    groups_call # None =>
      /\ groups_call.res.t \in {"Ok", "Err"}
      /\ Inconsistent(groups_call.entries, groups_call.track_count)
            => groups_call.res.t = "Err"

RECURSIVE GroupEntriesOf(_, _)
\* one entry for every titled group with tracks, in group order
GroupEntriesOf(groups, wide) ==
    IF groups = <<>> THEN <<>>
    ELSE LET g == Head(groups)
             range == GroupRange(g.tracks) IN
         (IF g.title = None \/ g.tracks = <<>> THEN <<>>
          ELSE IF wide
            THEN WideString(range) \o <<Wide(";")>>
                   \o (IF g.full_width_title = None THEN <<>> ELSE g.full_width_title.v)
                   \o <<Wide("/"), Wide("/")>>
            ELSE range \o <<";">> \o g.title.v \o <<"/", "/">>)
         \o GroupEntriesOf(Tail(groups), wide)
\* the complete compositions of a side: the disc-title entry (which an
\* empty disc title may or may not have) followed by all group entries
CompleteCompositions(disc, wide) ==
    LET disc_entry == IF wide
                        THEN <<Wide("0"), Wide(";")>> \o disc.full_width_title
                               \o <<Wide("/"), Wide("/")>>
                        ELSE <<"0", ";">> \o disc.title \o <<"/", "/">>
        empty_title == IF wide THEN disc.full_width_title = <<>> ELSE disc.title = <<>> IN
    {disc_entry \o GroupEntriesOf(disc.groups, wide)}
    \cup (IF empty_title THEN {GroupEntriesOf(disc.groups, wide)} ELSE {})

\* C28: each of the two strings compile_disc_titles returns is either empty
\* or the complete composition of its side, the disc-title entry followed
\* by one entry for every titled, non-empty group in group order, never one
\* with groups missing; and the cell budget is computed without underflow
\* when the titles need more than 255 cells.
C28_AllOrNothing ==
    (compile_call # None /\ compile_call.disc # None) =>
      /\ IsOk(compile_call.res)
      /\ compile_call.res.v[1] \in {<<>>} \cup CompleteCompositions(compile_call.disc, FALSE)
      /\ compile_call.res.v[2] \in {<<>>} \cup CompleteCompositions(compile_call.disc, TRUE)

\* whether some group or track of the disc has a non-empty full-width title
HasFullWidthTitle(disc) ==
    \/ \E i \in 1..Len(disc.groups) :
         disc.groups[i].full_width_title \notin {None, Ok(<<>>)}
    \/ \E i \in 1..Len(disc.groups) : \E k \in 1..Len(disc.groups[i].tracks) :
         disc.groups[i].tracks[k].full_width_len > 0

\* raw titles `0;<disc>//` followed by entries `<lo>[-<hi>];<group>//` with
\* disjoint ranges within track_count
Canonical(entries, n) ==
    /\ Len(entries) >= 1 /\ entries[1].kind = "disc"
    /\ \A i \in 2..Len(entries) :
         entries[i].kind \in {"range", "single"} /\ entries[i].hi <= n
    /\ WellFormed(entries, n)

\* C29: for a raw title s of the form `0;<disc>//` followed by group entries
\* with disjoint ranges within track_count, the Disc built from disc_title
\* and track_group_list of s compiles to s; and the full-width string is
\* non-empty only if some group or track has a non-empty full-width title.
C29_TitleRoundTrip ==
    (compile_call # None /\ compile_call.kind = "listed") =>
      /\ Canonical(compile_call.entries, compile_call.track_count) =>
           (IsOk(compile_call.res) /\ compile_call.res.v[1] = compile_call.raw_title)
      /\ (IsOk(compile_call.res) /\ compile_call.res.v[2] # <<>>)
            => HasFullWidthTitle(compile_call.disc)

\* the titles written on one side, in order
WritesOf(wchar) ==
    LET idx == {i \in 1..Len(rename_call.writes) : rename_call.writes[i].wchar = wchar} IN
    IF idx = {} THEN <<>> ELSE <<rename_call.writes[CHOOSE i \in idx : TRUE].title>>
\* the old raw title after its first entry, when that is a `0;` entry
AfterDiscEntry(raw, marker, delim) ==
    SubSeq(raw, IndexOf(raw, delim, 1) + Len(delim), Len(raw))
\* what rename_disc is to write on one side: `entry` is what stands for the
\* disc-title entry of a new title
ExpectedWrite(old_raw, new, wchar, entry) ==
    LET delim == IF wchar THEN <<Wide("/"), Wide("/")>> ELSE <<"/", "/">>
        marker == IF wchar THEN <<Wide("0"), Wide(";")>> ELSE <<"0", ";">> IN
    IF ~Contains(old_raw, delim) THEN new
    ELSE IF StartsWith(old_raw, marker) THEN entry \o AfterDiscEntry(old_raw, marker, delim)
    ELSE marker \o new \o delim \o old_raw
\* the writes of a side are as expected: none when the new title is the old
\* one (or none was given), else the one expected
SideAsExpected(old_raw, given, new, wchar, entry) ==
    IF ~given \/ new = disc_title(old_raw, wchar) THEN WritesOf(wchar) = <<>>
    ELSE WritesOf(wchar) = <<ExpectedWrite(old_raw, new, wchar, entry)>>
\* `0;<new>//`, and nothing for an empty new title
DiscEntry(new, wchar) ==
    (IF wchar THEN <<Wide("0"), Wide(";")>> ELSE <<"0", ";">>) \o new
      \o (IF wchar THEN <<Wide("/"), Wide("/")>> ELSE <<"/", "/">>)
DiscEntryUnlessEmpty(new, wchar) == IF new = <<>> THEN <<>> ELSE DiscEntry(new, wchar)
NewHalf == sanitize_half_width_title(rename_call.new_name)
NewFull == IF rename_call.new_fw_name = None THEN <<>>
           ELSE sanitize_full_width_title(rename_call.new_fw_name.v)

PositionQueryOutcome ==
    LET idx == {i \in 1..Len(cmds) : cmds[i].c = "data" /\ cmds[i].d = "position"} IN
    IF idx = {} THEN "unsent" ELSE cmds[CHOOSE i \in idx : TRUE].r
\* C30: position() returns the zeroed output exactly when the device
\* answered the position query with Rejected; every other error of the
\* query is returned to the caller as that error.
C30_ZeroedOnlyOnRejected ==
    (icall.op = "position" /\ ipc = "done") =>
      /\ (ires = Ok("zeroed")) <=> (PositionQueryOutcome = "Rejected")
      /\ PositionQueryOutcome \in InterfaceErrors \ {"Rejected"}
            => ires = Err(PositionQueryOutcome)

\* the outcome of the write query of a finished mutating operation, "unsent"
\* when the call ended before sending it
WriteOutcome ==
    LET idx == {i \in 1..Len(cmds) : cmds[i].c = "data" /\ cmds[i].d = icall.op} IN
    IF idx = {} THEN "unsent" ELSE cmds[CHOOSE i \in idx : TRUE].r
\* C31: when the write query of set_disc_title, erase_track or move_track
\* fails with an InterfaceError, the operation returns that error; it
\* returns Ok only when the device accepted the write.
C31_MutationsSurfaceFailures ==
    (icall.op \in MutatingOps /\ ipc = "done") =>
      /\ WriteOutcome \in InterfaceErrors => ires = Err(WriteOutcome)
      /\ IsOk(ires) => WriteOutcome = "ok"

\* a step of raw_disc_title's loop that took one more reply
TitleChunkStep ==
    /\ icall.op \in {"raw_disc_title", "set_disc_title"}
    /\ ipc = "loop" /\ ipc' = "loop"
    /\ lp'.n = lp.n + 1
\* C34: after each reply of raw_disc_title's loop `done` has strictly
\* advanced, `remaining` is total - done, and no more chunk requests were
\* made than total (so the loop ends for every sequence of replies).
C34_TitleLoopAdvances ==
    [][TitleChunkStep =>
         /\ lp'.done > lp.done
         /\ lp'.remaining = lp'.total - lp'.done
         /\ lp'.n <= lp'.total]_vars

\* the 16-bit word at the end of the track_change query that was sent
WireDirection == lp.query[Len(lp.query) - 1] * 256 + lp.query[Len(lp.query)]
\* C32: next_track sends the track_change command with the direction word
\* 0x8001, previous_track with 0x0002 and restart_track with 0x0001; the
\* query is 1850 ff10 00000000 followed by that word, high byte first.
C32_TrackChangeDirections ==
    (icall.op \in TrackChangeOps /\ ipc = "done") =>
      /\ SubSeq(lp.query, 1, 8) = <<24, 80, 255, 16, 0, 0, 0, 0>>
      /\ Len(lp.query) = 10
      /\ Len(cmds) = 1 /\ cmds[1].d = "track_change"
      /\ icall.op = "next_track" => WireDirection = 32769
      /\ icall.op = "previous_track" => WireDirection = 2
      /\ icall.op = "restart_track" => WireDirection = 1
C32_Witness ==
    /\ icall.op = "next_track" /\ ipc = "done" /\ ires = Ok("track_change")
    /\ lp.query = <<24, 80, 255, 16, 0, 0, 0, 0, 128, 1>>

(***************************************************************************)
(* NetMDContext (netmd/commands.rs): device_status, rewrite_disc_groups,   *)
(* upload                                                                  *)
(***************************************************************************)
\* one call is looked at per run
ContextIdle == status_call = None /\ rewrite_call = None /\ upload_call = None

\* the first error among the results of the calls made in order, None when
\* all returned Ok (`?` after each call)
RECURSIVE FirstFailure(_)
FirstFailure(rs) ==
    IF rs = <<>> THEN None
    ELSE IF ~IsOk(Head(rs)) THEN Head(rs)
    ELSE FirstFailure(Tail(rs))

\* NetMDInterface::disc_present, given what status() returned
disc_present(status_res) ==
    IF ~IsOk(status_res) THEN status_res
    ELSE IF Len(status_res.v) < 5 THEN Panic("index out of bounds")
    ELSE Ok(status_res.v[5] = 64)

\* FromPrimitive::from_u16 for OperatingStatus
OperatingStatus(n) ==
    CASE n = 50687 -> Ok("Ready")
      [] n = 50037 -> Ok("Playing")
      [] n = 50045 -> Ok("Paused")
      [] n = 49983 -> Ok("FastForward")
      [] n = 49999 -> Ok("Rewind")
      [] n = 65315 -> Ok("ReadingTOC")
      [] n = 65296 -> Ok("NoDisc")
      [] n = 65535 -> Ok("DiscBlank")
      [] n = 65319 -> Ok("ReadyForTransfer")
      [] OTHER -> None

\* NetMDContext::device_status, given what status(), playback_status2() and
\* position() returned
device_status(status_res, playback_res, position_res) ==
    LET failure == FirstFailure(<<status_res, playback_res, position_res>>) IN
    IF failure # None THEN failure
    ELSE IF Len(playback_res.v) < 6 \/ Len(status_res.v) < 5
      THEN Panic("index out of bounds")
    ELSE
      LET operating_status == playback_res.v[5] * 256 + playback_res.v[6]
          present == status_res.v[5] # 128
          st == OperatingStatus(operating_status) IN
      Ok([disc_present |-> present,
          state |-> IF st = Ok("Playing") /\ ~present THEN Ok("Ready") ELSE st,
          track |-> position_res.v[1] % 256,
          time |-> SubSeq(position_res.v, 3, 5)])

\* byte 4 of the status blocks looked at, and the other bytes
StatusByte4 == {0, 64, 128, 192}
StatusFill == {0, 255}
StatusBlocks ==
    {[i \in 1..9 |-> IF i = 5 THEN b ELSE f] : b \in StatusByte4, f \in StatusFill}
\* what playback_status2() returns: bytes 4 and 5 are the operating status
PlaybackBlocks ==
    {<<0, 0, 0, 0, 195, 117, 0>>, <<0, 0, 0, 0, 197, 255, 0>>, <<0, 0, 0, 0, 0, 0, 0>>}
Positions == {<<0, 0, 0, 0, 0>>, <<2, 0, 1, 30, 5>>}
ReadFailures == {Err("Communication"), Err("Rejected")}

\* a caller asks both for the same device state
DeviceStatusCall ==
    /\ ContextOnly
    /\ ContextIdle
    /\ \E status_res \in {Ok(b) : b \in StatusBlocks} \cup ReadFailures,
          playback_res \in {Ok(b) : b \in PlaybackBlocks} \cup ReadFailures,
          position_res \in {Ok(b) : b \in Positions} \cup ReadFailures :
         status_call' = [status |-> status_res,
                         disc_present |-> disc_present(status_res),
                         device_status |-> device_status(status_res, playback_res,
                                                         position_res)]
    /\ UNCHANGED <<rewrite_call, upload_call>>

\* C33: for every 9-byte status block, disc_present() and the disc_present
\* field of device_status() are both true exactly when byte 4 of the block
\* is 0x40.
C33_DiscPresentConsistent ==
    (status_call # None /\ IsOk(status_call.disc_present)
       /\ IsOk(status_call.device_status)) =>
      /\ status_call.disc_present.v <=> (status_call.status.v[5] = 64)
      /\ status_call.device_status.v.disc_present <=> (status_call.status.v[5] = 64)

\* NetMDContext::rewrite_disc_groups(disc) on a device whose half-width raw
\* title is half: the writes made, the result, and the half-width title the
\* device holds afterwards; both writes are made with wchar = false
rewrite_disc_groups(half, disc) ==
    LET compiled == compile_disc_titles(disc) IN
    IF ~IsOk(compiled) THEN [writes |-> <<>>, ret |-> compiled, half |-> half]
    ELSE
      LET new_raw_title == compiled.v[1]
          new_raw_full_width_title == compiled.v[2]
          first == set_disc_title(half, new_raw_title, FALSE) IN
      IF ~IsOk(first) THEN [writes |-> <<>>, ret |-> first, half |-> half]
      ELSE
        LET second == set_disc_title(first.v.title, new_raw_full_width_title, FALSE) IN
        IF ~IsOk(second)
          THEN [writes |-> <<first.v>>, ret |-> second, half |-> first.v.title]
          ELSE [writes |-> <<first.v, second.v>>, ret |-> Ok(<<>>),
                half |-> second.v.title]

\* the half-width raw title on the device before the call: none, another
\* one, or (same) the one the Disc compiles to
OtherRawTitle == <<"0", ";", "N", "/", "/">>

RewriteDiscGroupsCall ==
    /\ ContextOnly
    /\ ContextIdle
    /\ \E disc \in BuiltDiscs, before \in {"empty", "other", "same"} :
         LET compiled == compile_disc_titles(disc)
             half == CASE before = "empty" -> <<>>
                       [] before = "other" -> OtherRawTitle
                       [] before = "same" ->
                            IF IsOk(compiled) THEN compiled.v[1] ELSE <<>> IN
         rewrite_call' = [disc |-> disc, before |-> half, compiled |-> compiled,
                          res |-> rewrite_disc_groups(half, disc)]
    /\ UNCHANGED <<status_call, upload_call>>

\* C38: rewrite_disc_groups writes the compiled half-width string with
\* set_disc_title(wchar = false) and the compiled full-width string with
\* set_disc_title(wchar = true); after the call the half-width title on the
\* device is the compiled half-width string.
C38_RewriteUsesBothSlots ==
    (rewrite_call # None /\ IsOk(rewrite_call.res.ret)) =>
      /\ Len(rewrite_call.res.writes) = 2
      /\ rewrite_call.res.writes[1]
           = [wchar |-> FALSE,
              title |-> sanitize_half_width_title(rewrite_call.compiled.v[1])]
      /\ rewrite_call.res.writes[2]
           = [wchar |-> TRUE,
              title |-> sanitize_full_width_title(rewrite_call.compiled.v[2])]
      /\ rewrite_call.res.half = rewrite_call.compiled.v[1]

\* write_u32::<LittleEndian> and write_u16::<LittleEndian>
LE32(n) == <<n % 256, (n \div 256) % 256, (n \div 65536) % 256, (n \div 16777216) % 256>>
LE16(n) == <<n % 256, (n \div 256) % 256>>

\* utils::create_aea_header(AeaOptions { name, channels, sound_groups, .. }):
\* `256 - encoded_name.len()` underflows for a name of more than 256 bytes
\* (a panic with overflow checks, an allocation that fails without them)
create_aea_header(name, channels, sound_groups) ==
    IF Len(name) > 256 THEN Panic("overflow")
    ELSE Ok(LE32(2048) \o name \o Zeros(256 - Len(name)) \o LE32(sound_groups)
            \o <<channels, 0>>
            \o Zeros(32)
            \o LE32(0) \o LE32(0) \o LE32(0))

\* utils::create_wav_header(format, bytes), format LP4 or LP2
create_wav_header(format, bytes) ==
    LET joint_stereo == IF format = "LP4" THEN 192 ELSE 96
        bytes_per_frame == IF format = "LP4" THEN 0 ELSE 1
        bytes_per_second == (bytes_per_frame * 44100) \div 512 IN
    <<82, 73, 70, 70>> \o LE32(bytes + 60)
      \o <<87, 65, 86, 69, 102, 109, 116>> \o LE32(32)
      \o LE16(624) \o LE16(2) \o LE32(44100) \o LE32(bytes_per_second)
      \o LE16(bytes_per_frame * 2)
      \o <<0, 0>>
      \o LE16(14) \o LE16(1) \o LE32(bytes_per_frame)
      \o LE16(joint_stereo) \o LE16(joint_stereo)
      \o LE16(1) \o LE16(0)
      \o <<100, 97, 116, 97>> \o LE32(bytes)

\* the header upload builds for what save_track_to_array returned
UploadHeader(format, result, title_res) ==
    IF format \in {"SPMono", "SPStereo"}
      THEN IF ~IsOk(title_res) THEN title_res
           ELSE create_aea_header(title_res.v,
                                  IF format = "SPStereo" THEN 2 ELSE 1,
                                  Len(result) \div 212)
      ELSE Ok(create_wav_header(format, Len(result)))

\* what upload returns as its byte vector: the header alone
\* (`Ok((format, header))`; output_vec is filled and dropped)
UploadBytes(header, result) == header

\* NetMDContext::upload(track, progress_callback), given what
\* save_track_to_array and track_title returned
upload(save_res, title_res) ==
    IF ~IsOk(save_res) THEN save_res
    ELSE LET format == save_res.v.format
             result == save_res.v.result
             header == UploadHeader(format, result, title_res) IN
         IF ~IsOk(header) THEN header
         ELSE Ok([format |-> format, bytes |-> UploadBytes(header.v, result)])

\* most bytes of a track and most bytes of a title followed
MaxTrackBytes == 3
LongNameLen == 257
DiscFormats == {"LP4", "LP2", "SPMono", "SPStereo"}
TrackBytes ==
    UNION {[1..n -> {0, 255}] : n \in 0..MaxTrackBytes}
      \cup {[i \in 1..213 |-> 7]}
TrackNames == {<<>>, <<65, 66>>, [i \in 1..LongNameLen |-> 65]}

UploadCall ==
    /\ ContextOnly
    /\ ContextIdle
    /\ \E save_res \in {Ok([format |-> f, frames |-> 1, result |-> r]) :
                            f \in DiscFormats, r \in TrackBytes} \cup ReadFailures,
          title_res \in {Ok(n) : n \in TrackNames} \cup ReadFailures :
         upload_call' = [save |-> save_res, title |-> title_res,
                         header |-> IF IsOk(save_res)
                                      THEN UploadHeader(save_res.v.format,
                                                        save_res.v.result, title_res)
                                      ELSE None,
                         res |-> upload(save_res, title_res)]
    /\ UNCHANGED <<status_call, rewrite_call>>

\* C39: upload returns, with the disc format, the file header followed by
\* the track bytes save_track_to_array read: the vector is header_len plus
\* the number of track bytes long and ends with the track bytes.
C39_UploadHeaderThenTrack ==
    (upload_call # None /\ IsOk(upload_call.res)) =>
      LET bytes == upload_call.res.v.bytes
          result == upload_call.save.v.result
          header == upload_call.header.v IN
      /\ upload_call.res.v.format = upload_call.save.v.format
      /\ Len(bytes) = Len(header) + Len(result)
      /\ SubSeq(bytes, 1, Len(header)) = header
      /\ SubSeq(bytes, Len(header) + 1, Len(bytes)) = result

\* the steps that need the session key, and the key each was given
KeyedOps == {"setup_download", "send_track", "commit_track"}
KeyGiven(step) == IF step.op = "commit_track" THEN step.arg[2] ELSE step.arg
\* the last session_key_exchange before step i that a key came from
LastExchange(i) ==
    LET js == {j \in 1..(i - 1) : /\ steps[j].op = "session_key_exchange"
                                  /\ steps[j].r = "ok"
                                  /\ steps[j].arg.devnonce.len = 8} IN
    IF js = {} THEN 0 ELSE CHOOSE j \in js : \A k \in js : k <= j
\* C36: download_track on a session whose key is None returns an error and
\* sends nothing to the device; setup_download, send_track and commit_track
\* are only issued with the key that the session's last init derived.
C36_SessionGuard ==
    /\ (scall.op = "download_track" /\ hex_session_key = None) =>
         /\ Len(steps) = scall.entry_steps
         /\ spc \in {"ret", "done"} => sres = Err("non-init()'ed session")
    /\ \A i \in 1..Len(steps) :
         steps[i].op \in KeyedOps =>
           /\ LastExchange(i) # 0
           /\ KeyGiven(steps[i]).len = 8
           /\ KeyGiven(steps[i]).mac =
                <<"root_key", steps[LastExchange(i)].arg.nonce.id,
                  steps[LastExchange(i)].arg.devnonce.id, "zero">>
C36_Witness ==
    /\ scall.op = "download_track"
    /\ hex_session_key = None
    /\ spc = "ret"
    /\ sres = Err("non-init()'ed session")
    /\ \E i \in 1..Len(steps) :
         steps[i].op = "session_key_exchange" /\ steps[i].r = "ok"

\* the arguments of a secure-session call that its checks are to refuse
InvalidArguments(call) ==
    \/ call.op = "send_key_data" /\ (call.depth < 1 \/ call.depth > 63)
    \/ call.op = "session_key_exchange" /\ call.hostnonce # 8
    \/ call.op = "setup_download"
         /\ (call.contentid # 20 \/ call.keyenckey # 8 \/ call.hex_session_key # 8)
    \/ call.op = "commit_track" /\ call.hex_session_key # 8
\* C35: send_key_data with a depth outside 1..63 returns InvalidDepth;
\* session_key_exchange with a nonce that is not 8 bytes, setup_download
\* with a content id that is not 20 bytes or a kek or session key that is
\* not 8 bytes, and commit_track and send_track with a session key that is
\* not 8 bytes return InvalidLength; and in all these cases nothing was sent
\* to or read from the device.
C35_ValidationBeforeTraffic ==
    /\ (icall.op \in SecureOps /\ InvalidArguments(icall)) =>
         /\ cmds = <<>> /\ reads = 0 /\ replies = <<>>
         /\ ipc = "done" =>
               ires = IF icall.op = "send_key_data" THEN Err("InvalidDepth")
                                                    ELSE Err("InvalidLength")
    /\ (strack # None /\ strack.pc # "call" /\ strack.hex_session_key_len # 8) =>
         /\ bulk = <<>>
         /\ strack.pc = "done"
         /\ strack.res = Err("InvalidLength")
C35_Witness ==
    /\ icall.op = "setup_download" /\ icall.contentid = 20 /\ icall.keyenckey = 8
    /\ icall.hex_session_key = 7
    /\ ipc = "done" /\ ires = Err("InvalidLength")

\* 10 * (2^a - 1) fits 32 unsigned bits: 2^a - 1 <= (2^32 - 1) div 10
PollSleepFits(a) == a < 31 /\ (2 ^ a) - 1 <= 429496729
\* C37: the sleep 10 * (2^attempt - 1) ms of the polling loop of _read_reply
\* does not overflow 32 unsigned bits for any attempt the loop reaches: no
\* call ends in an arithmetic overflow, and every sleep that was computed
\* (one per attempt passed) fits.
C37_BackoffInRange ==
    tcall.op = "read_reply" =>
      /\ tres # Panic("arithmetic overflow")
      /\ attempt >= 1 => PollSleepFits(attempt - 1)

TransportInit ==
    /\ tcall = NoCall
    /\ tpc = "idle"
    /\ attempt = 0
    /\ length = 0
    /\ done = 0
    /\ final_result = <<>>
    /\ progress = <<>>
    /\ usb = <<>>
    /\ tres = None

InterfaceInit ==
    /\ icall = NoCall
    /\ ipc = "idle"
    /\ current_attempt = 0
    /\ sleeps = <<>>
    /\ reads = 0
    /\ replies = <<>>
    /\ cmds = <<>>
    /\ lp = None
    /\ ires = None

SessionInit ==
    /\ scall = NoCall
    /\ spc = "idle"
    /\ hex_session_key = None
    /\ steps = <<>>
    /\ sres = None

EncryptorInit ==
    /\ einput = None
    /\ state = None
    /\ thread = None
    /\ channel = None
    /\ outs = <<>>
    /\ closes = None
    /\ strack = None
    /\ bulk = <<>>

QueryInit ==
    /\ qfmt = None
    /\ qscan = None
    /\ qbcd = None

TitlesInit ==
    /\ groups_call = None
    /\ compile_call = None
    /\ rename_call = None

ContextInit ==
    /\ status_call = None
    /\ rewrite_call = None
    /\ upload_call = None

Init ==
    /\ overflow_checks \in BOOLEAN
    /\ QueryInit
    /\ TransportInit
    /\ InterfaceInit
    /\ SessionInit
    /\ EncryptorInit
    /\ TitlesInit
    /\ ContextInit

TransportNext ==
    \/ SendCommandCall
    \/ SendCommandPoll
    \/ SendCommandOut
    \/ ReadReplyCall
    \/ ReadReplyLoop
    \/ ReadReplyRead
    \/ ReadBulkCall
    \/ ReadBulkLoop

SpecTransport ==
    Init /\ [][TransportNext]_vars

InterfaceNext ==
    \/ InterfaceReadReplyCall
    \/ InterfaceReadReplyLoop
    \/ InterfaceCall
    \/ SecureCall
    \/ SecureOp
    \/ status
    \/ position
    \/ disc_flags
    \/ track_count
    \/ raw_disc_title
    \/ track_titles
    \/ set_track_title
    \/ SetDiscTitleWrite
    \/ erase_track
    \/ move_track
    \/ track_change
    \/ track_lengths
    \/ track_flags
    \/ disc_capacity
    \/ recording_parameters

SpecInterface ==
    Init /\ [][InterfaceNext]_vars

SessionNext ==
    \/ DownloadCall
    \/ SessionCall
    \/ prepare_download
    \/ MDSessionInit
    \/ MDSessionDownloadTrack
    \/ MDSessionClose
    \/ DownloadRelease

SpecSession ==
    Init /\ [][SessionNext]_vars

EncryptorNext ==
    \/ EncryptorNew
    \/ Producer
    \/ CallerNext
    \/ CallerClose
    \/ SendTrackCall
    \/ SendTrackLoop
    \/ SendTrackReply

SpecEncryptor ==
    Init /\ [][EncryptorNext]_vars

QueryNext ==
    \/ FormatQueryCall
    \/ ScanQueryCall
    \/ BcdCall

SpecQuery ==
    Init /\ [][QueryNext]_vars

TitlesNext ==
    \/ TrackGroupListCall
    \/ ListContentCompileCall
    \/ CompileDiscTitlesCall
    \/ RenameDiscCall

SpecTitles ==
    Init /\ [][TitlesNext]_vars

ContextNext ==
    \/ DeviceStatusCall
    \/ RewriteDiscGroupsCall
    \/ UploadCall

SpecContext ==
    Init /\ [][ContextNext]_vars

\* the operations that check their arguments: those of the Interface, and
\* send_track over an Encryptor; one of the two is followed per run
ValidationNext ==
    \/ einput = None /\ InterfaceNext
    \/ icall = NoCall /\ EncryptorNext

SpecValidation ==
    Init /\ [][ValidationNext]_vars

====
